---- MODULE Spec2Model ----
(***************************************************************************)
(* ClawDex: the pre-broadcast safety pipeline of the swap and send         *)
(* commands, with the pure functions it is built from (validateSafety,     *)
(* simulateAndDiff, buildKnownAddresses, validateTransfers, storeReceipt). *)
(*                                                                         *)
(* Addresses, mints and signatures are strings.  The empty string is the   *)
(* JavaScript '' (falsy); an optional field is None or Some(v).            *)
(***************************************************************************)
EXTENDS Integers, Sequences, FiniteSets, TLC

VARIABLES
    \* ---- validateTransfers applied to drawn inputs
    vtDiff,        \* the TransferDiff handed to validateTransfers
    vtKnown,       \* the known-address set handed to validateTransfers
    vtOut,         \* its result, or NotCalled
    \* ---- validateSafety applied to drawn inputs
    vsQuote,       \* the quote handed to validateSafety
    vsConfig,      \* the SafetyConfig handed to validateSafety
    vsOut,         \* its result, or NotCalled
    \* ---- simulateAndDiff applied to drawn inputs
    sdTx,          \* the transaction handed to simulateAndDiff
    sdSim,         \* the value the simulation RPC answers with
    sdOut,         \* the result (a diff or a thrown error), or NotCalled
    sdRpc,         \* the options simulateTransaction was called with, optional
    \* ---- buildKnownAddresses applied to drawn inputs
    bkWallet,      \* the wallet's public key
    bkFee,         \* the feeAccount argument, optional
    bkMints,       \* the tokenMints argument, optional
    bkOut,         \* the returned set, or NotCalled
    \* ---- one getQuote call over the retrying fetch
    frPc,          \* "fetch", "sleep", "respond" or "done"
    frAttempt,     \* the loop variable of fetchWithRetry
    frCalls,       \* history: how many times fetch was invoked
    frDelays,      \* history: the setTimeout delays awaited, in order
    frAnswers,     \* history: the responses fetch answered with, in order
    frLast,        \* lastResponse, optional
    frRes,         \* the response fetchWithRetry returned, optional
    frOut,         \* what getQuote or getSwapTransaction returned or threw, or NotCalled
    frReq,         \* the url and options fetchWithRetry was called with, optional
    frSent,        \* history: the requests handed to fetch, in order
    \* ---- one invocation of the swap or the send command
    cmd,           \* "swap" or "send"
    opts,          \* the command-line flags: yes, simulateOnly, skipSimulation; token (send)
    isTTY,         \* process.stdin.isTTY
    config,        \* the resolved configuration: fee_account, fee_bps, auto_create_fee_ata, safety
    pc,            \* the await the handler is at, or "exited"
    quoted,        \* the quote obtained (swap), optional
    feeAccount,    \* the fee token account passed to the swap-build request, optional
    txn,           \* the built transaction, optional
    simDiff,       \* the TransferDiff of the simulation, optional
    knownSet,      \* the known-address set handed to validateTransfers
    sentSig,       \* the signature sendRawTransaction returned, '' before
    printed,       \* what step 0 or the guardrail step wrote to the console, optional
    ledger,        \* the receipts file: the receipts stored, in order
    network,       \* every sendRawTransaction call made, in order
    exitCode,      \* the process exit code, optional
    trace,         \* history: the stages the handler went through, in order
    storeErrors,   \* history: how many storeReceipt calls threw
    typed,         \* history: what the user typed at the confirmation prompt, optional
    \* src/core/receipts.ts: storeReceipt and lookupReceipt on one receipts file
    rcExists,      \* whether receipts.jsonl exists
    rcInitial,     \* the content of receipts.jsonl before the first call
    rcFile,        \* the content of receipts.jsonl
    rcCalls,       \* history: the receipts passed to storeReceipt, in call order
    rcFound,       \* the last lookupReceipt call and what it returned
    \* src/core/receipts.ts: storeReceipt in two processes on one receipts file
    wrDir,         \* whether the receipts directory exists
    wrReceipt,     \* the receipt each process stores
    wrPc,          \* where each process is in storeReceipt
    wrOffset       \* the end of the file each process saw when it opened it

vtVars == <<vtDiff, vtKnown, vtOut>>
vsVars == <<vsQuote, vsConfig, vsOut>>
sdVars == <<sdTx, sdSim, sdOut, sdRpc>>
bkVars == <<bkWallet, bkFee, bkMints, bkOut>>
frVars == <<frPc, frAttempt, frCalls, frDelays, frAnswers, frLast, frRes, frOut,
            frReq, frSent>>
rcVars == <<rcExists, rcInitial, rcFile, rcCalls, rcFound>>
wrVars == <<wrDir, wrReceipt, wrPc, wrOffset>>
libVars == <<bkVars, frVars, rcVars, wrVars>>
fnVars == <<vtVars, vsVars, sdVars, libVars>>
cmdVars == <<cmd, opts, isTTY, config, pc, quoted, feeAccount, txn, simDiff, knownSet,
             sentSig, ledger, network, exitCode, trace, storeErrors, typed, printed>>
vars == <<vtDiff, vtKnown, vtOut, vsQuote, vsConfig, vsOut, sdTx, sdSim, sdOut, sdRpc,
          bkWallet, bkFee, bkMints, bkOut,
          frPc, frAttempt, frCalls, frDelays, frAnswers, frLast, frRes, frOut,
          frReq, frSent,
          cmd, opts, isTTY, config, pc, quoted, feeAccount, txn, simDiff, knownSet,
          sentSig, ledger, network, exitCode, trace, storeErrors, typed, printed,
          rcExists, rcInitial, rcFile, rcCalls, rcFound,
          wrDir, wrReceipt, wrPc, wrOffset>>

----------------------------------------------------------------------------
\* Generic helpers

NotCalled == [called |-> FALSE]

\* An optional value (a field that may be undefined): <<>> or <<v>>.
None == <<>>
Some(v) == <<v>>
IsSet(o) == o # <<>>
Val(o) == o[1]

Range(s) == {s[i] : i \in 1..Len(s)}

SeqsUpTo(S, n) == UNION {[1..k -> S] : k \in 0..n}

\* The permutations of a sequence (as sequences of the same length).
PermutationsOf(s) ==
    {[i \in 1..Len(s) |-> s[p[i]]] :
        p \in {q \in [1..Len(s) -> 1..Len(s)] : \A i, j \in 1..Len(s) : q[i] = q[j] => i = j}}

----------------------------------------------------------------------------
\* src/constants.ts: the known token mints

SOL_MINT == "So11111111111111111111111111111111111111112"
USDC_MINT == "EPjFWdd5AufqSSqeM2qN1xzybapC8G4wEGGkZwyTDt1v"
USDT_MINT == "Es9vMFrzaCERmJfrF4H2FYD4KCoNkY11McCe8BenwNYB"
BONK_MINT == "DezXAZ8z7PnrnRJjz3wXBoRgixCa6xjnB7YaB1pPB263"

\* KNOWN_TOKENS[key]: None when the table has no such key.
KNOWN_TOKENS(key) ==
    CASE key = "SOL"  -> Some([symbol |-> "SOL",  mint |-> SOL_MINT,  decimals |-> 9])
      [] key = "USDC" -> Some([symbol |-> "USDC", mint |-> USDC_MINT, decimals |-> 6])
      [] key = "USDT" -> Some([symbol |-> "USDT", mint |-> USDT_MINT, decimals |-> 6])
      [] OTHER -> None

\* String.prototype.toUpperCase on the allowlist entries the model draws.
\* A base58 mint address holds lower-case letters, so its upper-case form is
\* another string, which is no key of KNOWN_TOKENS.
ToUpperCase(entry) ==
    CASE entry = "sol"  -> "SOL"
      [] entry = "usdc" -> "USDC"
      [] entry = "Usdt" -> "USDT"
      [] entry \in {"SOL", "USDC", "USDT"} -> entry
      [] OTHER -> "UPPER(" \o entry \o ")"

\* parseFloat(priceImpactPct) * 100 on the strings the model draws, in basis
\* points; [nan |-> TRUE] is NaN.  The products below are exact in IEEE doubles.
ImpactBpsOf(priceImpactPct) ==
    CASE priceImpactPct = "0"    -> [nan |-> FALSE, bps |-> 0]
      [] priceImpactPct = "0.5"  -> [nan |-> FALSE, bps |-> 50]
      [] priceImpactPct = "1"    -> [nan |-> FALSE, bps |-> 100]
      [] priceImpactPct = "2.5"  -> [nan |-> FALSE, bps |-> 250]
      [] OTHER -> [nan |-> TRUE, bps |-> 0]

\* Number(inAmount) on the integer strings the model draws, in lamports / 10^8
\* (so that 1 SOL is 10): the comparison with max_trade_sol is scaled alike.
LamportUnitsOf(inAmount) ==
    CASE inAmount = "500000000"   -> 5
      [] inAmount = "10000000000" -> 100
      [] inAmount = "10100000000" -> 101
      [] inAmount = "25000000000" -> 250
      [] OTHER -> 0

UnitsPerSol == 10

----------------------------------------------------------------------------
\* src/core/safety.ts: validateSafety

FeeCheck(quote, safetyConfig) ==
    IF /\ IsSet(safetyConfig.max_fee_bps)
       /\ IsSet(quote.platformFee)
       /\ Val(quote.platformFee).feeBps > Val(safetyConfig.max_fee_bps)
    THEN <<[rule |-> "max_fee_bps",
            actual |-> Val(quote.platformFee).feeBps,
            max |-> Val(safetyConfig.max_fee_bps)]>>
    ELSE <<>>

SlippageCheck(quote, safetyConfig) ==
    IF /\ IsSet(safetyConfig.max_slippage_bps)
       /\ quote.slippageBps > Val(safetyConfig.max_slippage_bps)
    THEN <<[rule |-> "max_slippage_bps",
            actual |-> quote.slippageBps,
            max |-> Val(safetyConfig.max_slippage_bps)]>>
    ELSE <<>>

PriceImpactCheck(quote, safetyConfig) ==
    IF IsSet(safetyConfig.max_price_impact_bps)
    THEN LET impactBps == ImpactBpsOf(quote.priceImpactPct)
         IN  IF ~impactBps.nan /\ impactBps.bps > Val(safetyConfig.max_price_impact_bps)
             THEN <<[rule |-> "max_price_impact_bps",
                     actual |-> impactBps.bps,
                     max |-> Val(safetyConfig.max_price_impact_bps)]>>
             ELSE <<>>
    ELSE <<>>

TradeSizeCheck(quote, safetyConfig) ==
    IF IsSet(safetyConfig.max_trade_sol) /\ quote.inputMint = SOL_MINT
    THEN LET solAmount == LamportUnitsOf(quote.inAmount)
         IN  IF solAmount > Val(safetyConfig.max_trade_sol) * UnitsPerSol
             THEN <<[rule |-> "max_trade_sol",
                     actual |-> solAmount,
                     max |-> Val(safetyConfig.max_trade_sol)]>>
             ELSE <<>>
    ELSE <<>>

\* The mints the allowlist entries resolve to.
\* The allowlist taken as literal mint addresses only.
AllowedMints_LiteralOnly(allowlist) == {allowlist[i] : i \in 1..Len(allowlist)}

AllowedMints(allowlist) ==
    {IF IsSet(KNOWN_TOKENS(ToUpperCase(allowlist[i])))
        THEN Val(KNOWN_TOKENS(ToUpperCase(allowlist[i]))).mint
        ELSE allowlist[i] : i \in 1..Len(allowlist)}

AllowlistCheck(quote, safetyConfig) ==
    IF IsSet(safetyConfig.allowlist) /\ Len(Val(safetyConfig.allowlist)) > 0
    THEN IF quote.outputMint \notin AllowedMints(Val(safetyConfig.allowlist))
         THEN <<[rule |-> "allowlist", actual |-> 0, max |-> 0]>>
         ELSE <<>>
    ELSE <<>>

\* A mutant that returns at the first violation it finds.
ValidateSafety_ShortCircuit(quote, safetyConfig) ==
    LET all == FeeCheck(quote, safetyConfig) \o SlippageCheck(quote, safetyConfig)
                 \o PriceImpactCheck(quote, safetyConfig)
                 \o TradeSizeCheck(quote, safetyConfig)
                 \o AllowlistCheck(quote, safetyConfig)
        violations == IF all = <<>> THEN <<>> ELSE <<all[1]>>
    IN  [called |-> TRUE, safe |-> Len(violations) = 0, violations |-> violations]

\* The five checks run in source order, each pushing at most one message.
ValidateSafety(quote, safetyConfig) ==
    LET violations ==
            FeeCheck(quote, safetyConfig) \o SlippageCheck(quote, safetyConfig)
              \o PriceImpactCheck(quote, safetyConfig)
              \o TradeSizeCheck(quote, safetyConfig)
              \o AllowlistCheck(quote, safetyConfig)
    IN  [called |-> TRUE, safe |-> Len(violations) = 0, violations |-> violations]

----------------------------------------------------------------------------
\* src/core/simulate.ts: simulateAndDiff
\*
\* A transaction is [kind, instructions, staticAccountKeys, loadedAddresses,
\* compiledInstructions].  A legacy Transaction uses `instructions`, each with
\* its `keys` (account addresses).  A VersionedTransaction uses the message's
\* staticAccountKeys and compiledInstructions, whose accountKeyIndexes are
\* 0-based indexes into staticAccountKeys followed by the addresses that the
\* message's address table lookups load (loadedAddresses).
\*
\* A simulation value is [err, logs, preBalances, postBalances,
\* preTokenBalances, postTokenBalances], every field optional.  err is
\* [kind |-> "string" | "object", text]; text is the string itself, or the
\* JSON.stringify of the object.  A token-balance record is
\* [accountIndex, mint, owner, amount, decimals] with owner '' when absent.

EXIT_SIMULATION == 3
BaseFeeLamports == 5000

\* Set.prototype.add on a Set kept as the sequence of its insertion order.
SetAdd(set, x) == IF x \in Range(set) THEN set ELSE Append(set, x)

RECURSIVE SetAddAll(_, _)
SetAddAll(set, xs) ==
    IF xs = <<>> THEN set ELSE SetAddAll(SetAdd(set, Head(xs)), Tail(xs))

\* Array.prototype.join('\n')
RECURSIVE JoinLines(_)
JoinLines(lines) ==
    IF lines = <<>> THEN ""
    ELSE IF Len(lines) = 1 THEN lines[1]
    ELSE lines[1] \o "\n" \o JoinLines(Tail(lines))

\* The message of the error thrown for simValue.err.
SimulationErrorMessage(simValue) ==
    LET errMsg == Val(simValue.err).text
        logs == IF IsSet(simValue.logs) THEN JoinLines(Val(simValue.logs))
                ELSE "No logs available"
    IN  "Transaction simulation failed: " \o errMsg \o "\nLogs:\n" \o logs

\* if (simPre && simPost && simPre.length > 0) solChange = simPost[0] - simPre[0]
\* simPost[0] of an empty array is undefined, and number - undefined is NaN.
SolChangeOf(simValue) ==
    IF /\ IsSet(simValue.preBalances)
       /\ IsSet(simValue.postBalances)
       /\ Len(Val(simValue.preBalances)) > 0
    THEN IF Len(Val(simValue.postBalances)) > 0
         THEN [nan |-> FALSE, value |-> Val(simValue.postBalances)[1] - Val(simValue.preBalances)[1]]
         ELSE [nan |-> TRUE, value |-> 0]
    ELSE [nan |-> FALSE, value |-> 0]

\* Amounts are the decimal strings of u64 values.  An amount a < Pow53 is the
\* integer a; an amount a >= Pow53 stands for 2^53 + (a - Pow53), and the same
\* holds, with its sign, for a difference of amounts.
Pow53 == 1000

\* Number(tb.uiTokenAmount?.amount ?? '0'): the nearest double, ties to even.
\* Every integer below 2^53 is a double; from 2^53 on only the even ones are.
NumberOf(amount) ==
    IF amount < Pow53 THEN amount
    ELSE LET k == amount - Pow53
         IN  IF k % 2 = 0 THEN amount
             ELSE IF ((k - 1) \div 2) % 2 = 0 THEN amount - 1 ELSE amount + 1

\* `${tb.accountIndex}:${tb.mint}`
KeyOf(tb) == <<tb.accountIndex, tb.mint>>

\* preMap.get(key): Map.set overwrites, so the last record of the key counts.
PreMapGet(pre, key) ==
    LET hits == {i \in 1..Len(pre) : KeyOf(pre[i]) = key}
    IN  IF hits = {} THEN None
        ELSE Some(pre[CHOOSE i \in hits : \A j \in hits : j <= i])

\* The keys of preMap in insertion order (the first record of each key).
PreMapKeys(pre) == SetAddAll(<<>>, [i \in 1..Len(pre) |-> KeyOf(pre[i])])

\* const change = postAmount - (pre?.amount ?? 0)
ChangeOf(pre, tb) ==
    LET p == PreMapGet(pre, KeyOf(tb))
    IN  NumberOf(tb.amount) - (IF IsSet(p) THEN NumberOf(Val(p).amount) ELSE 0)

\* The loop over postTokenBalances: one TokenChange per record with change !== 0.
RECURSIVE PostChanges(_, _)
PostChanges(pre, post) ==
    IF post = <<>> THEN <<>>
    ELSE LET tb == Head(post)
             change == ChangeOf(pre, tb)
         IN  (IF change # 0
              THEN <<[mint |-> tb.mint, change |-> change, decimals |-> tb.decimals]>>
              ELSE <<>>) \o PostChanges(pre, Tail(post))

\* The loop over preMap: accounts present before and absent after, not empty.
RECURSIVE DrainedChanges(_, _, _)
DrainedChanges(pre, keys, seenKeys) ==
    IF keys = <<>> THEN <<>>
    ELSE LET p == Val(PreMapGet(pre, Head(keys)))
         IN  (IF Head(keys) \notin seenKeys /\ NumberOf(p.amount) > 0
              THEN <<[mint |-> p.mint, change |-> 0 - NumberOf(p.amount),
                      decimals |-> p.decimals]>>
              ELSE <<>>) \o DrainedChanges(pre, Tail(keys), seenKeys)

\* if (change > 0 && owner) destinations.add(owner), over postTokenBalances.
RECURSIVE OwnerDestinations(_, _, _)
OwnerDestinations(destinations, pre, post) ==
    IF post = <<>> THEN destinations
    ELSE LET tb == Head(post)
         IN  OwnerDestinations(
                 IF ChangeOf(pre, tb) > 0 /\ tb.owner # ""
                 THEN SetAdd(destinations, tb.owner) ELSE destinations,
                 pre, Tail(post))

\* The token part runs only if (preTokenBalances && postTokenBalances).
TokenChangesOf(simValue) ==
    IF IsSet(simValue.preTokenBalances) /\ IsSet(simValue.postTokenBalances)
    THEN LET pre == Val(simValue.preTokenBalances)
             post == Val(simValue.postTokenBalances)
         IN  PostChanges(pre, post)
               \o DrainedChanges(pre, PreMapKeys(pre), {KeyOf(post[i]) : i \in 1..Len(post)})
    ELSE <<>>

TokenDestinations(simValue) ==
    IF IsSet(simValue.preTokenBalances) /\ IsSet(simValue.postTokenBalances)
    THEN OwnerDestinations(<<>>, Val(simValue.preTokenBalances),
                           Val(simValue.postTokenBalances))
    ELSE <<>>

\* collectInstructionDestinations: every key of the instruction but the wallet.
CollectInstructionDestinations(ix, userPublicKey, destinations) ==
    SetAddAll(destinations, SelectSeq(ix.keys, LAMBDA addr : addr # userPublicKey))

RECURSIVE CollectLegacyDestinations(_, _, _)
CollectLegacyDestinations(instructions, userPublicKey, destinations) ==
    IF instructions = <<>> THEN destinations
    ELSE CollectLegacyDestinations(
             Tail(instructions), userPublicKey,
             CollectInstructionDestinations(Head(instructions), userPublicKey, destinations))

\* accountKeys[idx] of message.staticAccountKeys: undefined (here "") beyond its end.
StaticKeyAt(transaction, idx) ==
    IF idx + 1 <= Len(transaction.staticAccountKeys)
    THEN transaction.staticAccountKeys[idx + 1] ELSE ""

\* collectVersionedDestinations: if (addr && addr !== userKey) destinations.add(addr)
CollectVersionedDestinations(transaction, userPublicKey, destinations) ==
    LET RECURSIVE Ixs(_, _)
        Ixs(cis, dests) ==
            IF cis = <<>> THEN dests
            ELSE Ixs(Tail(cis),
                     SetAddAll(dests,
                         SelectSeq([i \in 1..Len(Head(cis).accountKeyIndexes) |->
                                        StaticKeyAt(transaction, Head(cis).accountKeyIndexes[i])],
                                   LAMBDA addr : addr # "" /\ addr # userPublicKey)))
    IN  Ixs(transaction.compiledInstructions, destinations)

\* The diff computed from a simulation value without error.
DiffOf(transaction, simValue, userPublicKey) ==
    LET fromTokens == TokenDestinations(simValue)
        destinations ==
            IF transaction.kind = "legacy"
            THEN CollectLegacyDestinations(transaction.instructions, userPublicKey, fromTokens)
            ELSE CollectVersionedDestinations(transaction, userPublicKey, fromTokens)
    IN  [solChange |-> SolChangeOf(simValue),
         tokenChanges |-> TokenChangesOf(simValue),
         destinations |-> destinations,
         feeAmount |-> BaseFeeLamports]

\* A mutant that computes a diff whatever simValue.err holds.
SimulateAndDiff_IgnoreErr(transaction, simValue, userPublicKey) ==
    [called |-> TRUE, threw |-> FALSE, message |-> "", code |-> "",
     diff |-> Some(DiffOf(transaction, simValue, userPublicKey))]

\* The second argument of connection.simulateTransaction: the options object
\* for a VersionedTransaction, and no argument at all for a legacy Transaction.
SimulateTransactionOptions(transaction) ==
    IF transaction.kind = "versioned"
    THEN [sigVerify |-> Some(FALSE), replaceRecentBlockhash |-> Some(TRUE)]
    ELSE [sigVerify |-> None, replaceRecentBlockhash |-> None]

\* simulateAndDiff on the value the simulation RPC returned: if (simValue.err)
\* throws; err is null or a TransactionError (a non-empty string or an object).
SimulateAndDiff(transaction, simValue, userPublicKey) ==
    IF IsSet(simValue.err) /\ Val(simValue.err).text # ""
    THEN [called |-> TRUE, threw |-> TRUE,
          message |-> SimulationErrorMessage(simValue),
          code |-> ToString(EXIT_SIMULATION),
          diff |-> None]
    ELSE [called |-> TRUE, threw |-> FALSE, message |-> "", code |-> "",
          diff |-> Some(DiffOf(transaction, simValue, userPublicKey))]

----------------------------------------------------------------------------
\* src/core/simulate.ts: buildKnownAddresses

SYSTEM_PROGRAM_ID == "11111111111111111111111111111111"
TOKEN_PROGRAM_ID == "TokenkegQfeZyiNwAJbNbGKPFXCWuBvf9Ss623VQ5DA"
ATA_PROGRAM_ID == "ATokenGPvbdGVxr1b2hvZbsiqW5xWH25efTNsLJA8knL"
JUPITER_V6_PROGRAM_ID == "JUP6LkbZbjS1jKKwapdHNy74zcZ3tLUZoi5QNyVTaV4"

\* new PublicKey(s) throws on a string that is no base58 public key.  The
\* model's malformed keys are the strings marked "bad:".
MalformedKeys == {"bad:mint", "bad:fee"}
IsPublicKey(s) == s \notin MalformedKeys

\* getAssociatedTokenAddressSync(mint, owner): the program-derived address of
\* the owner's token account for the mint, a function of the pair.
AssociatedTokenAddress(mint, owner) == "ata(" \o owner \o "," \o mint \o ")"

\* A mutant whose loop ends at the first malformed mint (one try around the loop).
DerivableAtas_StopsAtMalformed(owner, tokenMints) ==
    LET bad == {j \in 1..Len(tokenMints) : ~IsPublicKey(tokenMints[j])}
        stop == IF bad = {} THEN Len(tokenMints) + 1
                ELSE CHOOSE j \in bad : \A k \in bad : j <= k
    IN  {AssociatedTokenAddress(tokenMints[i], owner) : i \in 1..(stop - 1)}

\* The associated accounts of `owner` for the mints that are public keys; a
\* malformed mint is skipped (the inner try/catch).
DerivableAtas(owner, tokenMints) ==
    {AssociatedTokenAddress(tokenMints[i], owner) :
        i \in {j \in 1..Len(tokenMints) : IsPublicKey(tokenMints[j])}}

\* A mutant that leaves the Jupiter program out.
BuildKnownAddresses_NoJupiter(userPublicKey, feeAccountOpt, tokenMintsOpt) ==
    {userPublicKey, SYSTEM_PROGRAM_ID, TOKEN_PROGRAM_ID, ATA_PROGRAM_ID}
      \cup (IF IsSet(tokenMintsOpt)
            THEN DerivableAtas(userPublicKey, Val(tokenMintsOpt)) ELSE {})
      \cup (IF IsSet(feeAccountOpt) THEN {Val(feeAccountOpt)} ELSE {})

\* A mutant that adds the fee account but none of its token accounts.
BuildKnownAddresses_NoFeeAtas(userPublicKey, feeAccountOpt, tokenMintsOpt) ==
    {userPublicKey, SYSTEM_PROGRAM_ID, TOKEN_PROGRAM_ID, ATA_PROGRAM_ID, JUPITER_V6_PROGRAM_ID}
      \cup (IF IsSet(tokenMintsOpt)
            THEN DerivableAtas(userPublicKey, Val(tokenMintsOpt)) ELSE {})
      \cup (IF IsSet(feeAccountOpt) THEN {Val(feeAccountOpt)} ELSE {})

\* feeAccount and tokenMints are optional ('' / undefined are None).
BuildKnownAddresses(userPublicKey, feeAccountOpt, tokenMintsOpt) ==
    {userPublicKey, SYSTEM_PROGRAM_ID, TOKEN_PROGRAM_ID, ATA_PROGRAM_ID, JUPITER_V6_PROGRAM_ID}
      \cup (IF IsSet(tokenMintsOpt)
            THEN DerivableAtas(userPublicKey, Val(tokenMintsOpt)) ELSE {})
      \cup (IF IsSet(feeAccountOpt)
            THEN {Val(feeAccountOpt)}
                   \cup (IF IsSet(tokenMintsOpt) /\ IsPublicKey(Val(feeAccountOpt))
                         THEN DerivableAtas(Val(feeAccountOpt), Val(tokenMintsOpt))
                         ELSE {})
            ELSE {})

----------------------------------------------------------------------------
\* src/core/jupiter.ts: deriveFeeAta; src/core/receipts.ts: storeReceipt

\* deriveFeeAta throws when either string is no public key.
DeriveFeeAtaThrows(feeAccountPubkey, tokenMint) ==
    ~IsPublicKey(feeAccountPubkey) \/ ~IsPublicKey(tokenMint)

DeriveFeeAta(feeAccountPubkey, tokenMint) ==
    AssociatedTokenAddress(tokenMint, feeAccountPubkey)

\* buildReceipt / buildSendReceipt: the fields the pipeline decides.  An
\* undefined transferDiff is None and an undefined error is "".
Receipt(status, txSignature, transferDiff, error) ==
    [status |-> status, txSignature |-> txSignature, transferDiff |-> transferDiff,
     error |-> error]

\* The content of receipts.jsonl is a sequence of pieces: a JSON text, a
\* newline character, a blank, or text that is no JSON.
Newline == [newline |-> TRUE]
JsonText(value) == [json |-> value]
NotJson == [garbage |-> TRUE]
Blank == [blank |-> TRUE]

\* What JSON has for a number: NaN is written as null.
JsonNull == [null |-> TRUE]
JsonNumber(n) == IF n.nan THEN JsonNull ELSE n

\* JSON.stringify(receipt), as the value the text denotes: members that are
\* undefined are left out, and every number goes through JsonNumber.
JsonStringify(receipt) ==
    [receipt EXCEPT !.transferDiff =
        IF IsSet(@) THEN Some([Val(@) EXCEPT !.solChange = JsonNumber(@)]) ELSE None]

\* storeReceipt overwriting the file (writeFileSync for appendFileSync).
StoreReceipt_Overwrites(file, receipt) == <<JsonText(JsonStringify(receipt)), Newline>>

\* const line = JSON.stringify(receipt) + '\n'
ReceiptLine(receipt) == <<JsonText(JsonStringify(receipt)), Newline>>

\* A write at the position the file had when it was opened (no O_APPEND).
AppendWrite_AtOpenOffset(content, offset, data) ==
    SubSeq(content, 1, offset) \o data
        \o SubSeq(content, offset + Len(data) + 1, Len(content))

\* The write of appendFileSync: the file is open with flag 'a' (O_APPEND), so
\* the data goes to the end the file has at the time of the write.
AppendWrite(content, offset, data) == content \o data

\* const line = JSON.stringify(receipt) + '\n'; appendFileSync(filePath, line)
StoreReceipt(file, receipt) == file \o <<JsonText(JsonStringify(receipt)), Newline>>

\* content.split('\n')
RECURSIVE SplitLines(_)
SplitLines(content) ==
    LET breaks == {i \in 1..Len(content) : content[i] = Newline}
    IN  IF breaks = {}
        THEN <<content>>
        ELSE LET first == CHOOSE i \in breaks : \A j \in breaks : i <= j
             IN  <<SubSeq(content, 1, first - 1)>>
                     \o SplitLines(SubSeq(content, first + 1, Len(content)))

\* line.trim(): the blanks at both ends go.
RECURSIVE TrimLeft(_)
TrimLeft(line) ==
    IF line # <<>> /\ Head(line) = Blank THEN TrimLeft(Tail(line)) ELSE line

RECURSIVE TrimRight(_)
TrimRight(line) ==
    IF line # <<>> /\ line[Len(line)] = Blank
    THEN TrimRight(SubSeq(line, 1, Len(line) - 1))
    ELSE line

Trim(line) == TrimRight(TrimLeft(line))

\* JSON.parse(trimmed) returns for a line that is one JSON text, and throws
\* for any other line.
JsonParses(line) == Len(line) = 1 /\ "json" \in DOMAIN line[1]

\* receipt.txSignature of a parsed value: reading it from null throws, and a
\* value without the member gives undefined.
TxSignatureThrows(value) == value = JsonNull
TxSignatureOf(value) ==
    IF "txSignature" \in DOMAIN value THEN Some(value.txSignature) ELSE None

\* The body of the try block for one line: "skip" for a line that is empty
\* after trim() or whose receipt has another signature, "throws" when
\* JSON.parse or the member read throws, "match" when the receipt is returned.
LineOutcome(line, txSignature) ==
    LET trimmed == Trim(line)
    IN  IF trimmed = <<>> THEN "skip"
        ELSE IF ~JsonParses(trimmed) THEN "throws"
        ELSE IF TxSignatureThrows(trimmed[1].json) THEN "throws"
        ELSE IF TxSignatureOf(trimmed[1].json) = Some(txSignature) THEN "match"
        ELSE "skip"

\* The loop without its catch: an exception leaves lookupReceipt.
CatchContinue_Rethrows(outcome) == outcome

\* catch { continue; }
CatchContinue(outcome) == IF outcome = "throws" THEN "skip" ELSE outcome

\* lookupReceipt returning the last line of the signature.
RECURSIVE ScanLines_LastMatch(_, _)
ScanLines_LastMatch(lines, txSignature) ==
    IF lines = <<>> THEN [threw |-> FALSE, found |-> None]
    ELSE LET rest == ScanLines_LastMatch(Tail(lines), txSignature)
             outcome == CatchContinue(LineOutcome(Head(lines), txSignature))
         IN  IF IsSet(rest.found) \/ outcome # "match" THEN rest
             ELSE [threw |-> FALSE, found |-> Some(Trim(Head(lines))[1].json)]

\* for (const line of lines) { ... } return null;
RECURSIVE ScanLines(_, _)
ScanLines(lines, txSignature) ==
    IF lines = <<>> THEN [threw |-> FALSE, found |-> None]
    ELSE LET outcome == CatchContinue(LineOutcome(Head(lines), txSignature))
         IN  CASE outcome = "match" ->
                    [threw |-> FALSE, found |-> Some(Trim(Head(lines))[1].json)]
               [] outcome = "throws" -> [threw |-> TRUE, found |-> None]
               [] OTHER -> ScanLines(Tail(lines), txSignature)

\* lookupReceipt: null for a missing file, else the scan of its lines.
LookupReceipt(exists, content, txSignature) ==
    IF ~exists THEN [threw |-> FALSE, found |-> None]
    ELSE ScanLines(SplitLines(content), txSignature)

\* The values of the lines that parse, in file order.
RECURSIVE ParsedOf(_)
ParsedOf(lines) ==
    IF lines = <<>> THEN <<>>
    ELSE (IF JsonParses(Trim(Head(lines))) THEN <<Trim(Head(lines))[1].json>> ELSE <<>>)
             \o ParsedOf(Tail(lines))

ParsedLines(content) == ParsedOf(SplitLines(content))

----------------------------------------------------------------------------
\* src/core/simulate.ts: validateTransfers

\* A mutant that stops at the first unknown destination.
ValidateTransfers_FirstOnly(diff, knownAddresses) ==
    LET unknown == SelectSeq(diff.destinations, LAMBDA dest : dest \notin knownAddresses)
        first == IF unknown = <<>> THEN <<>> ELSE <<unknown[1]>>
    IN  [called |-> TRUE, safe |-> Len(first) = 0, unknownAddresses |-> first]

\* A mutant that accepts everything when the known set is empty.
ValidateTransfers_OpenOnEmpty(diff, knownAddresses) ==
    LET unknownAddresses ==
            IF knownAddresses = {} THEN <<>>
            ELSE SelectSeq(diff.destinations, LAMBDA dest : dest \notin knownAddresses)
    IN  [called |-> TRUE,
         safe |-> Len(unknownAddresses) = 0,
         unknownAddresses |-> unknownAddresses]

\* for (const dest of diff.destinations) if (!known.has(dest)) unknown.push(dest)
ValidateTransfers(diff, knownAddresses) ==
    LET unknownAddresses ==
            SelectSeq(diff.destinations, LAMBDA dest : dest \notin knownAddresses)
    IN  [called |-> TRUE,
         safe |-> Len(unknownAddresses) = 0,
         unknownAddresses |-> unknownAddresses]

----------------------------------------------------------------------------
\* Inputs of the validateSafety specification

VsQuotes ==
    [inputMint : {SOL_MINT, USDC_MINT},
     outputMint : {USDC_MINT, BONK_MINT},
     inAmount : {"500000000", "10100000000"},
     slippageBps : {50, 200},
     platformFee : {None, Some([amount |-> "1000", feeBps |-> 20]),
                    Some([amount |-> "9000", feeBps |-> 150])},
     priceImpactPct : {"0.5", "2.5", "not-a-number"}]

VsConfigs ==
    [max_fee_bps : {None, Some(100)},
     max_slippage_bps : {None, Some(100)},
     max_price_impact_bps : {None, Some(100)},
     max_trade_sol : {None, Some(10)},
     allowlist : {None, Some(<<>>), Some(<<"usdc">>), Some(<<BONK_MINT>>),
                  Some(<<"SOL", "Usdt">>), Some(<<"BONK">>), Some(<<"sol", BONK_MINT>>)}]

\* The variables of a function that the specification at hand does not call.
IdleSafety == vsQuote = None /\ vsConfig = None /\ vsOut = NotCalled
IdleValidate == vtDiff = None /\ vtKnown = {} /\ vtOut = NotCalled
IdleSimulate == sdTx = None /\ sdSim = None /\ sdOut = NotCalled /\ sdRpc = None
IdleKnown == bkWallet = "" /\ bkFee = None /\ bkMints = None /\ bkOut = NotCalled
IdleFetch ==
    /\ frPc = "idle" /\ frAttempt = 0 /\ frCalls = 0 /\ frDelays = <<>>
    /\ frAnswers = <<>> /\ frLast = None /\ frRes = None /\ frOut = NotCalled
    /\ frReq = None /\ frSent = <<>>
NotLookedUp == [called |-> FALSE, txSignature |-> "", threw |-> FALSE, found |-> None]
IdleReceipts ==
    /\ rcExists = FALSE /\ rcInitial = <<>> /\ rcFile = <<>> /\ rcCalls = <<>>
    /\ rcFound = NotLookedUp
IdleWriters == wrDir = FALSE /\ wrReceipt = <<>> /\ wrPc = <<>> /\ wrOffset = <<>>
IdleLib == IdleKnown /\ IdleFetch /\ IdleReceipts /\ IdleWriters
IdleCommand ==
    /\ cmd = "none" /\ opts = None /\ isTTY = FALSE /\ config = None /\ pc = "idle"
    /\ quoted = None /\ feeAccount = None /\ txn = None /\ simDiff = None
    /\ knownSet = {} /\ sentSig = "" /\ ledger = <<>> /\ network = <<>>
    /\ exitCode = None /\ trace = <<>> /\ storeErrors = 0 /\ typed = None
    /\ printed = None

InitSafety ==
    /\ vsQuote \in VsQuotes
    /\ vsConfig \in VsConfigs
    /\ vsOut = NotCalled
    /\ IdleValidate
    /\ IdleSimulate
    /\ IdleCommand
    /\ IdleLib

CallValidateSafety ==
    /\ ~vsOut.called
    /\ vsOut' = ValidateSafety(vsQuote, vsConfig)
    /\ UNCHANGED <<vsQuote, vsConfig, vtVars, sdVars, cmdVars, libVars>>

NextSafety == CallValidateSafety

SpecSafety == InitSafety /\ [][NextSafety]_vars

----------------------------------------------------------------------------
\* Inputs of the simulateAndDiff specification

MaxTok == 2     \* records in a token-balance vector
MaxIx == 2      \* instructions in a transaction
MaxKeys == 2    \* accounts of an instruction

Wallet == "W"

LegacyTx(instructions) ==
    [kind |-> "legacy", instructions |-> instructions, staticAccountKeys |-> <<>>,
     loadedAddresses |-> <<>>, compiledInstructions |-> <<>>]

VersionedTx(static, loaded, compiled) ==
    [kind |-> "versioned", instructions |-> <<>>, staticAccountKeys |-> static,
     loadedAddresses |-> loaded, compiledInstructions |-> compiled]

SdLegacyTxs ==
    {LegacyTx(ixs) :
        ixs \in SeqsUpTo([programId : {"TOK"}, keys : SeqsUpTo({Wallet, "X"}, MaxKeys)], MaxIx)}

\* The index lists of a compiled instruction over account indexes 0..last:
\* ascending, up to MaxKeys of them.
SdIndexLists(last) ==
    {s \in SeqsUpTo(0..last, MaxKeys) : \A i \in 1..(Len(s) - 1) : s[i] < s[i + 1]}

\* The wallet (fee payer) is static account 0; "Y" comes from a lookup table.
SdVersionedTxs ==
    UNION {
        {VersionedTx(<<Wallet, "X">>, loaded, cis) :
            cis \in SeqsUpTo([programIdIndex : {1},
                              accountKeyIndexes : SdIndexLists(1 + Len(loaded))],
                             MaxIx)} :
        loaded \in {<<>>, <<"Y">>}}

SdTxs == SdLegacyTxs \cup SdVersionedTxs

TokenRecord(idx, owner, amount) ==
    [accountIndex |-> idx, mint |-> USDC_MINT, owner |-> owner, amount |-> amount,
     decimals |-> 6]

\* Account 1 is the wallet's token account, account 2 belongs to "X", the
\* record of account 3 carries no owner, and account 4 is a pool vault of "X"
\* holding 2^53 raw units or one more.
SdTokenRecords ==
    {TokenRecord(1, Wallet, 0), TokenRecord(1, Wallet, 2),
     TokenRecord(2, "X", 0), TokenRecord(2, "X", 1),
     TokenRecord(3, "", 1),
     TokenRecord(4, "X", Pow53), TokenRecord(4, "X", Pow53 + 1)}

\* A token-balance vector of the RPC holds one record per token account.
DistinctKeys(v) == \A i, j \in 1..Len(v) : KeyOf(v[i]) = KeyOf(v[j]) => i = j

SdTokenVectors ==
    {None} \cup {Some(v) : v \in {w \in SeqsUpTo(SdTokenRecords, MaxTok) : DistinctKeys(w)}}

SdErrs ==
    {None,
     Some([kind |-> "string", text |-> "AccountInUse"]),
     Some([kind |-> "object", text |-> "{\"InstructionError\":[0,{\"Custom\":1}]}"])}

SdLogs == {None, Some(<<>>), Some(<<"Program log: swap", "Program failed: custom error">>)}

SdBalances ==
    {[pre |-> None, post |-> None],
     [pre |-> Some(<<>>), post |-> Some(<<>>)],
     [pre |-> Some(<<9, 4>>), post |-> Some(<<7, 4>>)],
     [pre |-> Some(<<9>>), post |-> None],
     [pre |-> Some(<<>>), post |-> Some(<<7>>)],
     [pre |-> Some(<<9>>), post |-> Some(<<>>)]}

SimValue(err, logs, bal, preTok, postTok) ==
    [err |-> err, logs |-> logs, preBalances |-> bal.pre, postBalances |-> bal.post,
     preTokenBalances |-> preTok, postTokenBalances |-> postTok]

\* Simulation values that vary the token vectors, with and without an error.
SdTokenSims ==
    {SimValue(err, Some(<<"Program log: swap">>), [pre |-> Some(<<9>>), post |-> Some(<<7>>)], a, b) :
        err \in {None, Some([kind |-> "string", text |-> "AccountInUse"])},
        a \in SdTokenVectors, b \in SdTokenVectors}

\* Simulation values that vary the error, the logs and the native balances.
SdErrSims ==
    {SimValue(err, logs, bal, Some(<<TokenRecord(2, "X", 0)>>), Some(<<TokenRecord(2, "X", 1)>>)) :
        err \in SdErrs, logs \in SdLogs, bal \in SdBalances}

\* The simulation values each transaction of SdTxs is paired with.
SdCoreSims ==
    {SimValue(None, None, [pre |-> None, post |-> None], None, None),
     SimValue(None, Some(<<>>), [pre |-> Some(<<9>>), post |-> Some(<<7>>)],
              Some(<<>>), Some(<<TokenRecord(2, "X", 1)>>))}

SdCoreTxs ==
    {LegacyTx(<<[programId |-> "TOK", keys |-> <<Wallet, "X">>]>>),
     VersionedTx(<<Wallet, "X">>, <<"Y">>,
                 <<[programIdIndex |-> 1, accountKeyIndexes |-> <<0, 2>>]>>)}

\* Every transaction with the core simulation values; the core transactions
\* with every error, log and native-balance value; and, the token diff being
\* computed from the simulation value alone, every pair of token vectors with
\* the legacy core transaction.
SdInputs ==
    {<<tx, sim>> : tx \in SdTxs, sim \in SdCoreSims}
      \cup {<<tx, sim>> : tx \in SdCoreTxs, sim \in SdErrSims}
      \cup {<<tx, sim>> : tx \in {t \in SdCoreTxs : t.kind = "legacy"}, sim \in SdTokenSims}

InitSimulate ==
    /\ \E input \in SdInputs : sdTx = input[1] /\ sdSim = input[2]
    /\ sdOut = NotCalled
    /\ sdRpc = None
    /\ IdleSafety
    /\ IdleValidate
    /\ IdleCommand
    /\ IdleLib

CallSimulateAndDiff ==
    /\ ~sdOut.called
    /\ sdRpc' = Some(SimulateTransactionOptions(sdTx))
    /\ sdOut' = SimulateAndDiff(sdTx, sdSim, Wallet)
    /\ UNCHANGED <<sdTx, sdSim, vsVars, vtVars, cmdVars, libVars>>

NextSimulate == CallSimulateAndDiff

SpecSimulate == InitSimulate /\ [][NextSimulate]_vars

----------------------------------------------------------------------------
\* src/types.ts: the exit codes

EXIT_SUCCESS == 0
EXIT_GENERAL == 1
EXIT_SAFETY == 2
EXIT_SEND == 4
EXIT_CONFIG == 5

----------------------------------------------------------------------------
\* The environment of one invocation: what the command line, the configuration
\* and the external services can hand to the handler.

FeeWallet == "FEE"
AmmKey == "AMM1"

NoLimits ==
    [max_fee_bps |-> None, max_slippage_bps |-> None, max_price_impact_bps |-> None,
     max_trade_sol |-> None, allowlist |-> None]

CmdSafetyConfigs ==
    {NoLimits, [NoLimits EXCEPT !.max_slippage_bps = Some(100), !.max_trade_sol = Some(10)]}

CmdConfigs ==
    [fee_account : {"", FeeWallet, "bad:fee"},
     fee_bps : {0, 20},
     auto_create_fee_ata : BOOLEAN,
     safety : CmdSafetyConfigs]

\* swap --in SOL --out USDC
CmdQuote(slippageBps) ==
    [inputMint |-> SOL_MINT, outputMint |-> USDC_MINT, inAmount |-> "500000000",
     slippageBps |-> slippageBps, platformFee |-> None, priceImpactPct |-> "0.5",
     routePlan |-> <<[swapInfo |-> [ammKey |-> AmmKey], percent |-> 100]>>]

\* The same quote routed through two venues.
TwoVenueQuote ==
    [CmdQuote(50) EXCEPT !.routePlan = <<[swapInfo |-> [ammKey |-> AmmKey], percent |-> 60],
                                         [swapInfo |-> [ammKey |-> "AMM2"], percent |-> 40]>>]

CmdQuotes == {CmdQuote(50), CmdQuote(200), TwoVenueQuote}

\* A swap transaction that also credits the fee wallet's USDC token account.
FeePayingSwapTx ==
    VersionedTx(<<Wallet, AssociatedTokenAddress(USDC_MINT, Wallet), AmmKey,
                  AssociatedTokenAddress(USDC_MINT, FeeWallet)>>, <<>>,
                <<[programIdIndex |-> 2, accountKeyIndexes |-> <<0, 1, 3>>]>>)

\* The transactions the swap-build call can answer with: one that touches only
\* expected accounts, one that names a stranger among its static keys, and one
\* that reaches a stranger through an address lookup table.
CmdSwapTxs ==
    {VersionedTx(<<Wallet, AssociatedTokenAddress(USDC_MINT, Wallet), AmmKey>>, <<>>,
                 <<[programIdIndex |-> 2, accountKeyIndexes |-> <<0, 1>>]>>),
     VersionedTx(<<Wallet, "X">>, <<>>,
                 <<[programIdIndex |-> 1, accountKeyIndexes |-> <<0, 1>>]>>),
     VersionedTx(<<Wallet, AmmKey>>, <<"Y">>,
                 <<[programIdIndex |-> 1, accountKeyIndexes |-> <<0, 2>>]>>),
     FeePayingSwapTx}

\* The values the simulation RPC can answer with.
CmdSims ==
    {SimValue(None, Some(<<"Program log: swap">>), [pre |-> None, post |-> None],
              Some(<<TokenRecord(1, Wallet, 0)>>), Some(<<TokenRecord(1, Wallet, 2)>>)),
     SimValue(None, Some(<<"Program log: swap">>), [pre |-> None, post |-> None],
              Some(<<>>), Some(<<TokenRecord(2, "X", 1)>>)),
     SimValue(Some([kind |-> "string", text |-> "AccountInUse"]),
              Some(<<"Program failed: custom error">>), [pre |-> None, post |-> None],
              None, None)}

\* answer.trim().toLowerCase() on the answers the model draws.
NormalizeAnswer(answer) ==
    CASE answer \in {"y", "Y", " y "} -> "y"
      [] answer \in {"yes", "YES"} -> "yes"
      [] answer = "N" -> "n"
      [] OTHER -> answer

CmdAnswers == {"y", " y ", "YES", "N", "", "yeah"}

\* promptConfirmation taking an empty answer for a yes.
PromptConfirmation_DefaultYes(tty, answer) ==
    tty /\ NormalizeAnswer(answer) \in {"y", "yes", ""}

\* promptConfirmation: false off a TTY, else what the user typed.
PromptConfirmation(tty, answer) ==
    tty /\ NormalizeAnswer(answer) \in {"y", "yes"}

----------------------------------------------------------------------------
\* src/commands/swap.ts: the action handler of the swap command, one action
\* per await.  process.exit ends the process where it is called.

\* const mode = isJson ? OutputMode.Json : OutputMode.Human
OutputMode(options) == IF options.json THEN "json" ELSE "human"

\* formatError: in JSON mode the object {error, code}, else the message text.
FormatError(message, mode, code) ==
    IF mode = "json"
    THEN [stream |-> "stderr", error |-> message, code |-> code]
    ELSE [stream |-> "stderr", text |-> message]

\* `Safety check failed: ${violations.join('; ')}`
SafetyErrorMsg(violations) == [prefix |-> "Safety check failed", joined |-> violations]

\* The guardrail step's output with the violations left out of the JSON object.
SafetyFailureOutput_NoViolations(violations, mode) ==
    IF mode = "json"
    THEN [stream |-> "stdout", success |-> FALSE, error |-> "SAFETY_CHECK_FAILED",
          message |-> SafetyErrorMsg(violations)]
    ELSE FormatError(SafetyErrorMsg(violations), mode, EXIT_SAFETY)

\* What the guardrail step prints after the receipt is stored: printResult of
\* the SAFETY_CHECK_FAILED object in JSON mode, printError otherwise.
SafetyFailureOutput(violations, mode) ==
    IF mode = "json"
    THEN [stream |-> "stdout", success |-> FALSE, error |-> "SAFETY_CHECK_FAILED",
          message |-> SafetyErrorMsg(violations), violations |-> violations]
    ELSE FormatError(SafetyErrorMsg(violations), mode, EXIT_SAFETY)

Exit(code) == pc' = "exited" /\ exitCode' = Some(code)

\* printError(message, mode, code); process.exit(code)
PrintErrorThenExit(message, code) ==
    /\ printed' = Some(FormatError(message, OutputMode(opts), code))
    /\ Exit(code)

\* Submit with a resend.
Submit_Twice(what, accepted) ==
    network' = network \o <<[tx |-> what, accepted |-> accepted],
                            [tx |-> what, accepted |-> accepted]>>

Submit(what, accepted) == network' = Append(network, [tx |-> what, accepted |-> accepted])

\* await storeReceipt(receipt); process.exit(code), inside the outer try only:
\* a throw of storeReceipt reaches the outer catch, which exits 1.
StoreThenExit(receipt, code) ==
    \E stored \in BOOLEAN :
        IF stored
        THEN ledger' = StoreReceipt(ledger, receipt) /\ storeErrors' = storeErrors /\ Exit(code)
        ELSE ledger' = ledger /\ storeErrors' = storeErrors + 1 /\ Exit(EXIT_GENERAL)

\* The same inside an inner try whose catch stores `fallback` and exits
\* `fallbackCode`: a throw of the first storeReceipt lands in that catch.
StoreThenExitInTry(receipt, code, fallback, fallbackCode) ==
    \E stored \in BOOLEAN :
        IF stored
        THEN ledger' = StoreReceipt(ledger, receipt) /\ storeErrors' = storeErrors /\ Exit(code)
        ELSE \E storedAgain \in BOOLEAN :
                IF storedAgain
                THEN /\ ledger' = StoreReceipt(ledger, fallback)
                     /\ storeErrors' = storeErrors + 1
                     /\ Exit(fallbackCode)
                ELSE /\ ledger' = ledger
                     /\ storeErrors' = storeErrors + 2
                     /\ Exit(EXIT_GENERAL)

\* Step 0: config, wallet, amount, and the non-TTY guard.
SwapPreflight ==
    /\ cmd = "swap" /\ pc = "start"
    /\ \E outcome \in {"config_error", "no_wallet", "wallet_error", "bad_amount", "ok"} :
          CASE outcome \in {"config_error", "no_wallet", "wallet_error"} ->
                 PrintErrorThenExit(outcome, EXIT_CONFIG)
            [] outcome = "bad_amount" ->
                 PrintErrorThenExit(outcome, EXIT_GENERAL)
            [] OTHER ->
                 IF ~opts.yes /\ ~opts.simulateOnly /\ ~isTTY
                 THEN PrintErrorThenExit("non_tty", EXIT_GENERAL)
                 ELSE pc' = "resolve" /\ exitCode' = exitCode /\ printed' = printed
    /\ UNCHANGED <<fnVars, cmd, opts, isTTY, config, quoted, feeAccount, txn, simDiff, knownSet,
                   sentSig, ledger, network, trace, storeErrors, typed>>

\* Step 1: resolveToken for both tokens; a throw reaches the outer catch.
SwapResolveTokens ==
    /\ cmd = "swap" /\ pc = "resolve"
    /\ \E resolved \in BOOLEAN :
          IF resolved THEN pc' = "quote" /\ exitCode' = exitCode ELSE Exit(EXIT_GENERAL)
    /\ UNCHANGED <<fnVars, cmd, opts, isTTY, printed, config, quoted, feeAccount, txn, simDiff, knownSet,
                   sentSig, ledger, network, trace, storeErrors, typed>>

\* Step 2: getQuote; a throw reaches the outer catch.
SwapGetQuote ==
    /\ cmd = "swap" /\ pc = "quote"
    /\ \/ /\ Exit(EXIT_GENERAL)
          /\ UNCHANGED <<quoted, trace>>
       \/ \E q \in CmdQuotes :
             /\ quoted' = Some(q)
             /\ trace' = Append(trace, "quote")
             /\ pc' = "safety" /\ exitCode' = exitCode
    /\ UNCHANGED <<fnVars, cmd, opts, isTTY, printed, config, feeAccount, txn, simDiff, knownSet,
                   sentSig, ledger, network, storeErrors, typed>>

\* Step 3: validateSafety; a violation stores a receipt and exits 2.
SwapSafetyCheck ==
    /\ cmd = "swap" /\ pc = "safety"
    /\ LET safetyResult == ValidateSafety(Val(quoted), config.safety)
       IN  IF ~safetyResult.safe
           THEN /\ trace' = Append(trace, "guardrail_violation")
                /\ StoreThenExit(Receipt("failed", "", None, "Safety check failed"), EXIT_SAFETY)
                /\ printed' = Some(IF storeErrors' = storeErrors
                                   THEN SafetyFailureOutput(safetyResult.violations,
                                                            OutputMode(opts))
                                   ELSE FormatError("storeReceipt threw", OutputMode(opts),
                                                    EXIT_GENERAL))
           ELSE /\ trace' = Append(trace, "guardrail_ok")
                /\ pc' = "fee_ata" /\ exitCode' = exitCode
                /\ UNCHANGED <<ledger, storeErrors, printed>>
    /\ UNCHANGED <<fnVars, cmd, opts, isTTY, config, quoted, feeAccount, txn, simDiff, knownSet,
                   sentSig, network, typed>>

\* ensureFeeAta: getAccount again, and when it throws, build, sign, send and
\* confirm the transaction that creates the fee token account.  Any throw
\* reaches the outer catch of the handler.
EnsureFeeAta(feeAtaAddress, before) ==
    \E outcome \in {"exists", "blockhash_throws", "send_throws", "confirm_throws", "confirmed"} :
        CASE outcome = "exists" ->
               /\ feeAccount' = Some(feeAtaAddress)
               /\ pc' = "build" /\ exitCode' = exitCode
               /\ trace' = before
               /\ UNCHANGED network
          [] outcome = "blockhash_throws" ->
               /\ Exit(EXIT_GENERAL)
               /\ trace' = before
               /\ UNCHANGED <<feeAccount, network>>
          [] outcome = "send_throws" ->
               /\ Submit("create_fee_ata", FALSE)
               /\ trace' = Append(before, "fee_ata_broadcast")
               /\ Exit(EXIT_GENERAL)
               /\ UNCHANGED feeAccount
          [] outcome = "confirm_throws" ->
               /\ Submit("create_fee_ata", TRUE)
               /\ trace' = Append(before, "fee_ata_broadcast")
               /\ Exit(EXIT_GENERAL)
               /\ UNCHANGED feeAccount
          [] OTHER ->
               /\ Submit("create_fee_ata", TRUE)
               /\ trace' = Append(before, "fee_ata_broadcast")
               /\ feeAccount' = Some(feeAtaAddress)
               /\ pc' = "build" /\ exitCode' = exitCode

\* What getAccount can do: return the account, throw because there is no such
\* account, or throw because the RPC call itself failed.
GetAccountAnswers == {"exists", "not_found", "rpc_error"}

\* Step 4, first half: the fee token account of the fee wallet for the output
\* mint; the catch around getAccount takes every throw as "does not exist".
SwapFeeAta ==
    /\ cmd = "swap" /\ pc = "fee_ata"
    /\ IF config.fee_account # "" /\ config.fee_bps > 0
       THEN IF DeriveFeeAtaThrows(config.fee_account, USDC_MINT)
            THEN Exit(EXIT_GENERAL) /\ UNCHANGED <<feeAccount, network, trace>>
            ELSE LET feeAtaAddress == DeriveFeeAta(config.fee_account, USDC_MINT)
                 IN  \E answer \in GetAccountAnswers :
                        LET checked ==
                                Append(trace,
                                       CASE answer = "exists" -> "fee_ata_exists"
                                         [] answer = "not_found" -> "fee_ata_missing"
                                         [] OTHER -> "fee_ata_check_failed")
                        IN  IF answer = "exists"
                            THEN /\ feeAccount' = Some(feeAtaAddress)
                                 /\ pc' = "build" /\ exitCode' = exitCode
                                 /\ trace' = checked
                                 /\ UNCHANGED network
                            ELSE IF config.auto_create_fee_ata
                                 THEN EnsureFeeAta(feeAtaAddress, checked)
                                 ELSE /\ pc' = "build" /\ exitCode' = exitCode
                                      /\ trace' = checked
                                      /\ UNCHANGED <<feeAccount, network>>
       ELSE /\ pc' = "build" /\ exitCode' = exitCode
            /\ UNCHANGED <<feeAccount, network, trace>>
    /\ UNCHANGED <<fnVars, cmd, opts, isTTY, printed, config, quoted, txn, simDiff, knownSet,
                   sentSig, ledger, storeErrors, typed>>

\* SwapGetSwapTransaction going straight to the prompt.
SwapGetSwapTransaction_SkipsSimulation ==
    /\ cmd = "swap" /\ pc = "build"
    /\ \E t \in CmdSwapTxs :
          /\ txn' = Some(t)
          /\ trace' = Append(trace, "swap_build")
          /\ pc' = "after_sim"
          /\ exitCode' = exitCode
    /\ UNCHANGED <<fnVars, cmd, opts, isTTY, printed, config, quoted, feeAccount, simDiff, knownSet,
                   sentSig, ledger, network, storeErrors, typed>>

\* Step 4, second half: getSwapTransaction and the deserialization of its
\* answer; a throw of either reaches the outer catch.
SwapGetSwapTransaction ==
    /\ cmd = "swap" /\ pc = "build"
    /\ \/ /\ Exit(EXIT_GENERAL)
          /\ trace' = Append(trace, "swap_build_error")
          /\ UNCHANGED txn
       \/ \E t \in CmdSwapTxs :
             /\ txn' = Some(t)
             /\ trace' = Append(trace, "swap_build")
             /\ pc' = (IF opts.skipSimulation THEN "after_sim" ELSE "simulate")
             /\ exitCode' = exitCode
    /\ UNCHANGED <<fnVars, cmd, opts, isTTY, printed, config, quoted, feeAccount, simDiff, knownSet,
                   sentSig, ledger, network, storeErrors, typed>>

\* The known set with the ammKey of the route plan's first step only.
SwapKnownAddresses_FirstVenueOnly ==
    BuildKnownAddresses(Wallet,
                        IF config.fee_account # "" THEN Some(config.fee_account) ELSE None,
                        Some(<<SOL_MINT, USDC_MINT>>))
      \cup {Val(quoted).routePlan[1].swapInfo.ammKey}

\* The known set of a swap: buildKnownAddresses plus the route plan's ammKeys.
SwapKnownAddresses ==
    BuildKnownAddresses(Wallet,
                        IF config.fee_account # "" THEN Some(config.fee_account) ELSE None,
                        Some(<<SOL_MINT, USDC_MINT>>))
      \cup {Val(quoted).routePlan[i].swapInfo.ammKey : i \in 1..Len(Val(quoted).routePlan)}

\* SwapSimulate without the exit on unknown destinations.
SwapSimulate_ContinuesOnUnknown ==
    /\ cmd = "swap" /\ pc = "simulate"
    /\ \E sim \in CmdSims :
          LET r == SimulateAndDiff(Val(txn), sim, Wallet)
          IN  IF r.threw
              THEN /\ trace' = Append(trace, "simulate_error")
                   /\ StoreThenExit(Receipt("failed", "", None, r.message), EXIT_SIMULATION)
                   /\ UNCHANGED <<simDiff, knownSet>>
              ELSE /\ simDiff' = r.diff
                   /\ knownSet' = SwapKnownAddresses
                   /\ trace' = trace \o <<"simulate_ok", "validate_ok">>
                   /\ pc' = "after_sim" /\ exitCode' = exitCode
                   /\ UNCHANGED <<ledger, storeErrors>>
    /\ UNCHANGED <<fnVars, cmd, opts, isTTY, printed, config, quoted, feeAccount, txn, sentSig, network, typed>>

\* Step 5: simulateAndDiff, then validateTransfers, inside one try whose catch
\* stores a simulation-failure receipt and exits 3.
SwapSimulate ==
    /\ cmd = "swap" /\ pc = "simulate"
    /\ \E sim \in CmdSims :
          LET r == SimulateAndDiff(Val(txn), sim, Wallet)
              caught == Receipt("failed", "", None, "caught")
          IN  IF r.threw
              THEN /\ trace' = Append(trace, "simulate_error")
                   /\ StoreThenExit(Receipt("failed", "", None, r.message), EXIT_SIMULATION)
                   /\ UNCHANGED <<simDiff, knownSet>>
              ELSE LET d == Val(r.diff)
                       transferValidation == ValidateTransfers(d, SwapKnownAddresses)
                   IN  /\ simDiff' = Some(d)
                       /\ knownSet' = SwapKnownAddresses
                       /\ IF ~transferValidation.safe
                          THEN /\ trace' = trace \o <<"simulate_ok", "validate_unknown">>
                               /\ StoreThenExitInTry(
                                      Receipt("failed", "", Some(d), "Unknown transfer destinations"),
                                      EXIT_SAFETY, caught, EXIT_SIMULATION)
                          ELSE /\ trace' = trace \o <<"simulate_ok", "validate_ok">>
                               /\ pc' = "after_sim" /\ exitCode' = exitCode
                               /\ UNCHANGED <<ledger, storeErrors>>
    /\ UNCHANGED <<fnVars, cmd, opts, isTTY, printed, config, quoted, feeAccount, txn, sentSig, network, typed>>

\* --simulate-only: store a 'simulated' receipt and exit 0.
SwapSimulateOnly ==
    /\ cmd = "swap" /\ pc = "after_sim" /\ opts.simulateOnly
    /\ trace' = Append(trace, "simulate_only")
    /\ StoreThenExit(Receipt("simulated", "", simDiff, ""), EXIT_SUCCESS)
    /\ UNCHANGED <<fnVars, cmd, opts, isTTY, printed, config, quoted, feeAccount, txn, simDiff, knownSet,
                   sentSig, network, typed>>

\* Step 6: the confirmation prompt, unless --yes.
SwapPrompt ==
    /\ cmd = "swap" /\ pc = "after_sim" /\ ~opts.simulateOnly
    /\ IF opts.yes
       THEN pc' = "send" /\ exitCode' = exitCode /\ UNCHANGED <<trace, typed>>
       ELSE \E answer \in CmdAnswers :
               /\ typed' = (IF isTTY THEN Some(answer) ELSE None)
               /\ IF PromptConfirmation(isTTY, answer)
                  THEN /\ trace' = Append(trace, "prompt_yes")
                       /\ pc' = "send" /\ exitCode' = exitCode
                  ELSE /\ trace' = Append(trace, "prompt_no")
                       /\ Exit(EXIT_GENERAL)
    /\ UNCHANGED <<fnVars, cmd, opts, isTTY, printed, config, quoted, feeAccount, txn, simDiff, knownSet,
                   sentSig, ledger, network, storeErrors>>

\* Step 7: sign and sendRawTransaction, inside the try whose catch stores a
\* failed receipt with an empty signature and exits 4.
SwapSignAndSend ==
    /\ cmd = "swap" /\ pc = "send"
    /\ \E outcome \in {"sign_throws", "send_throws", "accepted"} :
          CASE outcome = "sign_throws" ->
                 /\ trace' = Append(trace, "sign_error")
                 /\ StoreThenExit(Receipt("failed", "", simDiff, "sign"), EXIT_SEND)
                 /\ UNCHANGED <<network, sentSig>>
            [] outcome = "send_throws" ->
                 /\ trace' = trace \o <<"sign", "broadcast">>
                 /\ Submit("swap", FALSE)
                 /\ StoreThenExit(Receipt("failed", "", simDiff, "send"), EXIT_SEND)
                 /\ UNCHANGED sentSig
            [] OTHER ->
                 /\ trace' = trace \o <<"sign", "broadcast">>
                 /\ Submit("swap", TRUE)
                 /\ sentSig' = "SIG"
                 /\ pc' = "confirm" /\ exitCode' = exitCode
                 /\ UNCHANGED <<ledger, storeErrors>>
    /\ UNCHANGED <<fnVars, cmd, opts, isTTY, printed, config, quoted, feeAccount, txn, simDiff, knownSet, typed>>

\* SwapConfirm without the test of confirmation.value.err: an execution error
\* on chain is reported as a success.
SwapConfirm_IgnoresOnchainError ==
    /\ cmd = "swap" /\ pc = "confirm"
    /\ LET caught == Receipt("failed", "", simDiff, "caught")
       IN  \E outcome \in {"confirm_throws", "onchain_error", "confirmed"} :
              CASE outcome = "confirm_throws" ->
                     /\ trace' = Append(trace, "confirm_error")
                     /\ StoreThenExit(caught, EXIT_SEND)
                [] outcome = "onchain_error" ->
                     /\ trace' = Append(trace, "onchain_error")
                     /\ StoreThenExitInTry(Receipt("success", sentSig, simDiff, ""),
                                           EXIT_SUCCESS, caught, EXIT_SEND)
                [] OTHER ->
                     /\ trace' = Append(trace, "confirmed")
                     /\ StoreThenExitInTry(Receipt("success", sentSig, simDiff, ""),
                                           EXIT_SUCCESS, caught, EXIT_SEND)
    /\ UNCHANGED <<fnVars, cmd, opts, isTTY, printed, config, quoted, feeAccount, txn, simDiff, knownSet,
                   sentSig, network, typed>>

\* Step 8: confirmTransaction and the final receipt, inside the same try.
SwapConfirm ==
    /\ cmd = "swap" /\ pc = "confirm"
    /\ LET caught == Receipt("failed", "", simDiff, "caught")
       IN  \E outcome \in {"confirm_throws", "onchain_error", "confirmed"} :
              CASE outcome = "confirm_throws" ->
                     /\ trace' = Append(trace, "confirm_error")
                     /\ StoreThenExit(caught, EXIT_SEND)
                [] outcome = "onchain_error" ->
                     /\ trace' = Append(trace, "onchain_error")
                     /\ StoreThenExitInTry(
                            Receipt("failed", sentSig, simDiff, "Transaction failed on-chain"),
                            EXIT_SEND, caught, EXIT_SEND)
                [] OTHER ->
                     /\ trace' = Append(trace, "confirmed")
                     /\ StoreThenExitInTry(Receipt("success", sentSig, simDiff, ""),
                                           EXIT_SUCCESS, caught, EXIT_SEND)
    /\ UNCHANGED <<fnVars, cmd, opts, isTTY, printed, config, quoted, feeAccount, txn, simDiff, knownSet,
                   sentSig, network, typed>>

----------------------------------------------------------------------------
\* src/commands/send.ts: the action handler of the send command.

Recipient == "R"

\* Step 3: the transfer the handler builds: a system transfer for SOL, else a
\* token transfer, preceded by the creation of the recipient's token account
\* when getAccount threw.
SendTransaction(token, recipientAtaFound) ==
    IF token = "SOL"
    THEN LegacyTx(<<[programId |-> SYSTEM_PROGRAM_ID, keys |-> <<Wallet, Recipient>>]>>)
    ELSE LET senderAta == AssociatedTokenAddress(USDC_MINT, Wallet)
             recipientAta == AssociatedTokenAddress(USDC_MINT, Recipient)
             create == [programId |-> ATA_PROGRAM_ID,
                        keys |-> <<Wallet, recipientAta, Recipient, USDC_MINT,
                                   SYSTEM_PROGRAM_ID, TOKEN_PROGRAM_ID>>]
             transfer == [programId |-> TOKEN_PROGRAM_ID,
                          keys |-> <<senderAta, recipientAta, Wallet>>]
         IN  LegacyTx(IF recipientAtaFound THEN <<transfer>> ELSE <<create, transfer>>)

\* Step 0: config, wallet, amount, recipient, and the non-TTY guard.
SendPreflight ==
    /\ cmd = "send" /\ pc = "start"
    /\ \E outcome \in {"config_error", "no_wallet", "wallet_error", "bad_amount",
                       "bad_recipient", "ok"} :
          CASE outcome \in {"config_error", "no_wallet", "wallet_error"} ->
                 PrintErrorThenExit(outcome, EXIT_CONFIG)
            [] outcome \in {"bad_amount", "bad_recipient"} ->
                 PrintErrorThenExit(outcome, EXIT_GENERAL)
            [] OTHER ->
                 IF ~opts.yes /\ ~opts.simulateOnly /\ ~isTTY
                 THEN PrintErrorThenExit("non_tty", EXIT_GENERAL)
                 ELSE pc' = "resolve" /\ exitCode' = exitCode /\ printed' = printed
    /\ UNCHANGED <<fnVars, cmd, opts, isTTY, config, quoted, feeAccount, txn, simDiff,
                   knownSet, sentSig, ledger, network, trace, storeErrors, typed>>

\* Step 1: resolveToken; a throw reaches the outer catch.
SendResolveToken ==
    /\ cmd = "send" /\ pc = "resolve"
    /\ \E resolved \in BOOLEAN :
          IF resolved THEN pc' = "safety" /\ exitCode' = exitCode ELSE Exit(EXIT_GENERAL)
    /\ UNCHANGED <<fnVars, cmd, opts, isTTY, printed, config, quoted, feeAccount, txn, simDiff,
                   knownSet, sentSig, ledger, network, trace, storeErrors, typed>>

\* Step 2 reporting the breach and going on to build the transaction.
SendSafetyCheck_OnlyWarns ==
    /\ cmd = "send" /\ pc = "safety"
    /\ trace' = Append(trace, "guardrail_ok")
    /\ pc' = "build" /\ exitCode' = exitCode
    /\ UNCHANGED <<fnVars, cmd, opts, isTTY, printed, config, quoted, feeAccount, txn, simDiff,
                   knownSet, sentSig, ledger, network, storeErrors, typed>>

\* Step 2: max_trade_sol, for SOL sends only.
SendSafetyCheck ==
    /\ cmd = "send" /\ pc = "safety"
    /\ IF /\ opts.token = "SOL"
          /\ IsSet(config.safety.max_trade_sol)
          /\ opts.amount > Val(config.safety.max_trade_sol)
       THEN /\ trace' = Append(trace, "guardrail_violation")
            /\ StoreThenExit(Receipt("failed", "", None, "Safety check failed"), EXIT_SAFETY)
            /\ printed' = Some(IF storeErrors' = storeErrors
                               THEN SafetyFailureOutput(
                                        <<[rule |-> "max_trade_sol",
                                           actual |-> opts.amount,
                                           max |-> Val(config.safety.max_trade_sol)]>>,
                                        OutputMode(opts))
                               ELSE FormatError("storeReceipt threw", OutputMode(opts),
                                                EXIT_GENERAL))
       ELSE /\ trace' = Append(trace, "guardrail_ok")
            /\ pc' = "build" /\ exitCode' = exitCode
            /\ UNCHANGED <<ledger, storeErrors, printed>>
    /\ UNCHANGED <<fnVars, cmd, opts, isTTY, config, quoted, feeAccount, txn, simDiff,
                   knownSet, sentSig, network, typed>>

\* Step 3: build the transaction; getLatestBlockhash may throw (outer catch).
SendBuild ==
    /\ cmd = "send" /\ pc = "build"
    /\ \/ /\ Exit(EXIT_GENERAL)
          /\ UNCHANGED <<txn, trace>>
       \/ \E recipientAtaFound \in BOOLEAN :
             /\ txn' = Some(SendTransaction(opts.token, recipientAtaFound))
             /\ trace' = Append(trace, "build")
             /\ pc' = "simulate" /\ exitCode' = exitCode
    /\ UNCHANGED <<fnVars, cmd, opts, isTTY, printed, config, quoted, feeAccount, simDiff,
                   knownSet, sentSig, ledger, network, storeErrors, typed>>

\* Step 4: simulateAndDiff; its catch stores a failed receipt and exits 3.
SendSimulate ==
    /\ cmd = "send" /\ pc = "simulate"
    /\ \E sim \in CmdSims :
          LET r == SimulateAndDiff(Val(txn), sim, Wallet)
          IN  IF r.threw
              THEN /\ trace' = Append(trace, "simulate_error")
                   /\ StoreThenExit(Receipt("failed", "", None, r.message), EXIT_SIMULATION)
                   /\ UNCHANGED simDiff
              ELSE /\ trace' = Append(trace, "simulate_ok")
                   /\ simDiff' = r.diff
                   /\ pc' = "after_sim" /\ exitCode' = exitCode
                   /\ UNCHANGED <<ledger, storeErrors>>
    /\ UNCHANGED <<fnVars, cmd, opts, isTTY, printed, config, quoted, feeAccount, txn, knownSet,
                   sentSig, network, typed>>

\* --simulate-only: store a 'simulated' receipt and exit 0.
SendSimulateOnly ==
    /\ cmd = "send" /\ pc = "after_sim" /\ opts.simulateOnly
    /\ trace' = Append(trace, "simulate_only")
    /\ StoreThenExit(Receipt("simulated", "", simDiff, ""), EXIT_SUCCESS)
    /\ UNCHANGED <<fnVars, cmd, opts, isTTY, printed, config, quoted, feeAccount, txn, simDiff,
                   knownSet, sentSig, network, typed>>

\* Step 5: the confirmation prompt, unless --yes.
SendPrompt ==
    /\ cmd = "send" /\ pc = "after_sim" /\ ~opts.simulateOnly
    /\ IF opts.yes
       THEN pc' = "send" /\ exitCode' = exitCode /\ UNCHANGED <<trace, typed>>
       ELSE \E answer \in CmdAnswers :
               /\ typed' = (IF isTTY THEN Some(answer) ELSE None)
               /\ IF PromptConfirmation(isTTY, answer)
                  THEN /\ trace' = Append(trace, "prompt_yes")
                       /\ pc' = "send" /\ exitCode' = exitCode
                  ELSE /\ trace' = Append(trace, "prompt_no")
                       /\ Exit(EXIT_GENERAL)
    /\ UNCHANGED <<fnVars, cmd, opts, isTTY, printed, config, quoted, feeAccount, txn, simDiff,
                   knownSet, sentSig, ledger, network, storeErrors>>

\* Step 6: sign and sendRawTransaction, inside the try whose catch stores a
\* failed receipt with an empty signature and exits 4.
SendSignAndSend ==
    /\ cmd = "send" /\ pc = "send"
    /\ \E outcome \in {"sign_throws", "send_throws", "accepted"} :
          CASE outcome = "sign_throws" ->
                 /\ trace' = Append(trace, "sign_error")
                 /\ StoreThenExit(Receipt("failed", "", simDiff, "sign"), EXIT_SEND)
                 /\ UNCHANGED <<network, sentSig>>
            [] outcome = "send_throws" ->
                 /\ trace' = trace \o <<"sign", "broadcast">>
                 /\ Submit("send", FALSE)
                 /\ StoreThenExit(Receipt("failed", "", simDiff, "send"), EXIT_SEND)
                 /\ UNCHANGED sentSig
            [] OTHER ->
                 /\ trace' = trace \o <<"sign", "broadcast">>
                 /\ Submit("send", TRUE)
                 /\ sentSig' = "SIG"
                 /\ pc' = "confirm" /\ exitCode' = exitCode
                 /\ UNCHANGED <<ledger, storeErrors>>
    /\ UNCHANGED <<fnVars, cmd, opts, isTTY, printed, config, quoted, feeAccount, txn, simDiff,
                   knownSet, typed>>

\* Steps 7 and 8: confirmTransaction and the final receipt, inside the same try.
SendConfirm ==
    /\ cmd = "send" /\ pc = "confirm"
    /\ LET caught == Receipt("failed", "", simDiff, "caught")
       IN  \E outcome \in {"confirm_throws", "onchain_error", "confirmed"} :
              CASE outcome = "confirm_throws" ->
                     /\ trace' = Append(trace, "confirm_error")
                     /\ StoreThenExit(caught, EXIT_SEND)
                [] outcome = "onchain_error" ->
                     /\ trace' = Append(trace, "onchain_error")
                     /\ StoreThenExitInTry(
                            Receipt("failed", sentSig, simDiff, "Transaction failed on-chain"),
                            EXIT_SEND, caught, EXIT_SEND)
                [] OTHER ->
                     /\ trace' = Append(trace, "confirmed")
                     /\ StoreThenExitInTry(Receipt("success", sentSig, simDiff, ""),
                                           EXIT_SUCCESS, caught, EXIT_SEND)
    /\ UNCHANGED <<fnVars, cmd, opts, isTTY, printed, config, quoted, feeAccount, txn, simDiff,
                   knownSet, sentSig, network, typed>>

Next ==
    \/ SwapPreflight \/ SwapResolveTokens \/ SwapGetQuote \/ SwapSafetyCheck
    \/ SwapFeeAta \/ SwapGetSwapTransaction \/ SwapSimulate \/ SwapSimulateOnly
    \/ SwapPrompt \/ SwapSignAndSend \/ SwapConfirm
    \/ SendPreflight \/ SendResolveToken \/ SendSafetyCheck \/ SendBuild
    \/ SendSimulate \/ SendSimulateOnly \/ SendPrompt \/ SendSignAndSend
    \/ SendConfirm

\* swap --in SOL --out USDC --amount 0.5 with every combination of flags and of
\* fee settings; send --token SOL|USDC --amount 1|20 (it has no
\* --skip-simulation and reads no fee setting).
InitCommand ==
    /\ \/ /\ cmd = "swap"
          /\ opts \in [yes : BOOLEAN, simulateOnly : BOOLEAN, skipSimulation : BOOLEAN,
                        json : BOOLEAN, token : {"SOL"}, amount : {1}]
          /\ config \in CmdConfigs
       \/ /\ cmd = "send"
          /\ opts \in [yes : BOOLEAN, simulateOnly : BOOLEAN, skipSimulation : {FALSE},
                        json : BOOLEAN, token : {"SOL", "USDC"}, amount : {1, 20}]
          /\ config \in [fee_account : {""}, fee_bps : {20}, auto_create_fee_ata : {TRUE},
                          safety : CmdSafetyConfigs]
    /\ isTTY \in BOOLEAN
    /\ pc = "start"
    /\ quoted = None /\ feeAccount = None /\ txn = None /\ simDiff = None
    /\ knownSet = {} /\ sentSig = "" /\ ledger = <<>> /\ network = <<>>
    /\ exitCode = None /\ trace = <<>> /\ storeErrors = 0 /\ typed = None
    /\ printed = None
    /\ IdleSafety /\ IdleValidate /\ IdleSimulate /\ IdleLib

Spec == InitCommand /\ [][Next]_vars

----------------------------------------------------------------------------
\* Inputs of the validateTransfers specification

MaxDests == 3

VtAddresses == {"W", "A", "B"}

VtDiffs ==
    {[solChange |-> 0, tokenChanges |-> <<>>, destinations |-> d, feeAmount |-> 5000] :
        d \in SeqsUpTo(VtAddresses, MaxDests)}

InitValidate ==
    /\ vtDiff \in VtDiffs
    /\ vtKnown \in SUBSET VtAddresses
    /\ vtOut = NotCalled
    /\ IdleSafety
    /\ IdleSimulate
    /\ IdleCommand
    /\ IdleLib

CallValidateTransfers ==
    /\ ~vtOut.called
    /\ vtOut' = ValidateTransfers(vtDiff, vtKnown)
    /\ UNCHANGED <<vtDiff, vtKnown, vsVars, sdVars, cmdVars, libVars>>

NextValidate == CallValidateTransfers

SpecValidate == InitValidate /\ [][NextValidate]_vars

----------------------------------------------------------------------------
\* The guardrails of section 4.5, each stated on the quote and the config.

Guardrails ==
    {"max_fee_bps", "max_slippage_bps", "max_price_impact_bps", "max_trade_sol", "allowlist"}

Configured(rule, cfg) ==
    CASE rule = "max_fee_bps" -> IsSet(cfg.max_fee_bps)
      [] rule = "max_slippage_bps" -> IsSet(cfg.max_slippage_bps)
      [] rule = "max_price_impact_bps" -> IsSet(cfg.max_price_impact_bps)
      [] rule = "max_trade_sol" -> IsSet(cfg.max_trade_sol)
      [] rule = "allowlist" -> IsSet(cfg.allowlist) /\ Val(cfg.allowlist) # <<>>

Breaches(rule, q, cfg) ==
    /\ Configured(rule, cfg)
    /\ CASE rule = "max_fee_bps" ->
              IsSet(q.platformFee) /\ Val(q.platformFee).feeBps > Val(cfg.max_fee_bps)
         [] rule = "max_slippage_bps" -> q.slippageBps > Val(cfg.max_slippage_bps)
         [] rule = "max_price_impact_bps" ->
              /\ ~ImpactBpsOf(q.priceImpactPct).nan
              /\ ImpactBpsOf(q.priceImpactPct).bps > Val(cfg.max_price_impact_bps)
         [] rule = "max_trade_sol" ->
              /\ q.inputMint = SOL_MINT
              /\ LamportUnitsOf(q.inAmount) > Val(cfg.max_trade_sol) * UnitsPerSol
         [] rule = "allowlist" ->
              \A i \in 1..Len(Val(cfg.allowlist)) :
                  LET e == Val(cfg.allowlist)[i]
                      t == KNOWN_TOKENS(ToUpperCase(e))
                  IN  q.outputMint # (IF IsSet(t) THEN Val(t).mint ELSE e)

MessagesFor(rule, violations) ==
    Cardinality({i \in 1..Len(violations) : violations[i].rule = rule})

\* C6: validateSafety never short-circuits: the violations list holds exactly
\* one message for each configured guardrail the quote breaches (k breaches
\* give k messages), none for a guardrail whose config field is absent, and
\* safe is true exactly when the list is empty.
C6_ValidateSafetyExhaustive ==
    vsOut.called =>
        /\ \A rule \in Guardrails :
              MessagesFor(rule, vsOut.violations) =
                  (IF Breaches(rule, vsQuote, vsConfig) THEN 1 ELSE 0)
        /\ Len(vsOut.violations) =
              Cardinality({rule \in Guardrails : Breaches(rule, vsQuote, vsConfig)})
        /\ \A rule \in Guardrails :
              ~Configured(rule, vsConfig) => MessagesFor(rule, vsOut.violations) = 0
        /\ vsOut.safe <=> (vsOut.violations = <<>>)

\* A quote that breaches all five guardrails at once.
C6_Witness ==
    /\ vsOut.called
    /\ Len(vsOut.violations) = 5
    /\ \A rule \in Guardrails : Breaches(rule, vsQuote, vsConfig)

----------------------------------------------------------------------------
\* What a transaction's instructions reference, and whom the simulated token
\* balances credit, stated on the inputs.

\* Every account address an instruction of the transaction references.
ReferencedAccounts(tx) ==
    IF tx.kind = "legacy"
    THEN UNION {Range(tx.instructions[i].keys) : i \in 1..Len(tx.instructions)}
    ELSE LET all == tx.staticAccountKeys \o tx.loadedAddresses
         IN  UNION {{all[ix + 1] : ix \in Range(tx.compiledInstructions[i].accountKeyIndexes)} :
                       i \in 1..Len(tx.compiledInstructions)}

\* The amount the pre-simulation records hold for a key (0 when none does).
PreAmount(sim, key) ==
    IF IsSet(PreMapGet(Val(sim.preTokenBalances), key))
    THEN Val(PreMapGet(Val(sim.preTokenBalances), key)).amount
    ELSE 0

\* The owners of the post-simulation records whose amount rose.  A change is
\* the difference between a post record and its pre record: there is none
\* when the simulation returns no pre or no post vector.
CreditedOwners(sim) ==
    IF IsSet(sim.preTokenBalances) /\ IsSet(sim.postTokenBalances)
    THEN LET post == Val(sim.postTokenBalances)
         IN  {post[i].owner : i \in {j \in 1..Len(post) :
                 post[j].owner # "" /\ post[j].amount - PreAmount(sim, KeyOf(post[j])) > 0}}
    ELSE {}

\* C4: the destinations of a TransferDiff are exactly the union of the owners
\* of the token-balance records whose change is positive and of every account
\* address an instruction of the transaction references, other than the
\* wallet, for legacy and for versioned transactions alike.
C4_DestinationsAreUnion ==
    (sdOut.called /\ ~sdOut.threw) =>
        Range(Val(sdOut.diff).destinations) =
            CreditedOwners(sdSim) \cup (ReferencedAccounts(sdTx) \ {Wallet})

\* C10: if the simulation value carries an execution error, simulateAndDiff
\* throws an error whose message carries the program log trace and returns no
\* TransferDiff, whatever balance fields the value holds.
C10_ErrorThrowsNoDiff ==
    (sdOut.called /\ IsSet(sdSim.err)) =>
        /\ sdOut.threw
        /\ sdOut.diff = None
        /\ sdOut.message =
              "Transaction simulation failed: " \o Val(sdSim.err).text \o "\nLogs:\n"
                \o (IF IsSet(sdSim.logs) THEN JoinLines(Val(sdSim.logs))
                    ELSE "No logs available")

\* An erroring simulation with a two-line log trace and token balances that
\* would give a non-empty diff.
C10_Witness ==
    /\ sdOut.called
    /\ IsSet(sdSim.err)
    /\ sdOut.threw
    /\ IsSet(sdSim.logs) /\ Len(Val(sdSim.logs)) = 2
    /\ IsSet(sdSim.preTokenBalances) /\ IsSet(sdSim.postTokenBalances)
    /\ TokenChangesOf(sdSim) # <<>>

----------------------------------------------------------------------------
\* C2: validateTransfers returns safe=true iff every destination is in the
\* known set; unknownAddresses holds every non-member destination (not only
\* the first); and the verdict and the set of unknown addresses are the same
\* for every permutation of diff.destinations.
C2_ValidateTransfersExact ==
    vtOut.called =>
        /\ vtOut.safe <=> (Range(vtDiff.destinations) \subseteq vtKnown)
        /\ Range(vtOut.unknownAddresses) = Range(vtDiff.destinations) \ vtKnown
        /\ \A p \in PermutationsOf(vtDiff.destinations) :
              LET r == ValidateTransfers([vtDiff EXCEPT !.destinations = p], vtKnown)
              IN  /\ r.safe = vtOut.safe
                  /\ Range(r.unknownAddresses) = Range(vtOut.unknownAddresses)

\* Two unknown destinations among three, in an order where the known one is first.
C2_Witness ==
    /\ vtOut.called
    /\ ~vtOut.safe
    /\ Cardinality(Range(vtOut.unknownAddresses)) = 2
    /\ Len(vtDiff.destinations) = 3
    /\ vtDiff.destinations[1] \in vtKnown

----------------------------------------------------------------------------
\* src/core/jupiter.ts: fetchWithRetry and getQuote

MAX_RETRIES == 3
INITIAL_RETRY_DELAY_MS == 1000

RECURSIVE Pow2(_)
Pow2(n) == IF n = 0 THEN 1 ELSE 2 * Pow2(n - 1)

\* A response is [status, statusText, body]; a body is [kind, error, quote]:
\* kind "json" when res.json() parses it, error its `error` field ('' when it
\* has none), quote whether it is a quote.
Body(kind, error, quote) == [kind |-> kind, error |-> error, quote |-> quote]

Response(status, statusText, body) ==
    [status |-> status, statusText |-> statusText, body |-> body]

\* What the transport can answer with.
FrResponses ==
    {Response(200, "OK", Body("json", "", TRUE)),
     Response(200, "OK", Body("text", "", FALSE)),
     Response(429, "Too Many Requests", Body("text", "", FALSE)),
     Response(429, "Too Many Requests", Body("json", "Rate limit exceeded", FALSE)),
     Response(400, "Bad Request", Body("json", "Invalid token mint", FALSE)),
     Response(400, "Bad Request", Body("json", "", FALSE)),
     Response(500, "Internal Server Error", Body("text", "", FALSE))}

\* if (res.status !== 429) return res
IsRateLimited_ServerErrors(res) == res.status = 429 \/ res.status >= 500

IsRateLimited(res) == res.status = 429

\* if (attempt < retries) await the backoff delay
SleepNeeded(attempt) == attempt < MAX_RETRIES

\* for (...; attempt <= retries; attempt++)
LoopContinues_OneMore(attempt) == attempt <= MAX_RETRIES + 1

LoopContinues(attempt) == attempt <= MAX_RETRIES

\* A backoff that grows by initialDelay each time instead of doubling.
RetryDelay_Linear(attempt) == INITIAL_RETRY_DELAY_MS * (attempt + 1)

\* INITIAL_RETRY_DELAY_MS * Math.pow(2, attempt)
RetryDelay(attempt) == INITIAL_RETRY_DELAY_MS * Pow2(attempt)

\* res.ok
Ok(res) == res.status >= 200 /\ res.status <= 299

\* The message of the error getQuote throws for a response that is not ok.
QuoteFailureMessage_StatusOnly(res) ==
    "Jupiter quote failed (" \o ToString(res.status) \o "): " \o res.statusText

QuoteFailureMessage(res) ==
    IF res.body.kind = "json" /\ res.body.error # ""
    THEN "Jupiter quote failed: " \o res.body.error
    ELSE "Jupiter quote failed (" \o ToString(res.status) \o "): " \o res.statusText

\* getQuote once fetchWithRetry has returned res.
GetQuoteResult(res) ==
    IF ~Ok(res)
    THEN [called |-> TRUE, threw |-> TRUE, message |-> QuoteFailureMessage(res),
          quote |-> FALSE]
    ELSE IF res.body.kind = "json"
         THEN [called |-> TRUE, threw |-> FALSE, message |-> "", quote |-> res.body.quote]
         ELSE [called |-> TRUE, threw |-> TRUE, message |-> "SyntaxError", quote |-> FALSE]

\* attempt++ and the loop test; when the loop ends, lastResponse is returned.
NextIteration(last) ==
    /\ frAttempt' = frAttempt + 1
    /\ IF LoopContinues(frAttempt + 1)
       THEN frPc' = "fetch" /\ UNCHANGED frRes
       ELSE frPc' = "respond" /\ frRes' = last

\* buildHeaders: the x-api-key header when an API key is given ('' is none).
BuildHeaders(apiKey) == IF apiKey # "" THEN {<<"x-api-key", apiKey>>} ELSE {}

\* The url and options getQuote hands to fetchWithRetry: the query string holds
\* platformFeeBps only when it is above 0; no method and no body.
QuoteRequest(platformFeeBps, apiKey) ==
    [caller |-> "getQuote",
     url |-> [base |-> "JUPITER_QUOTE_URL",
              query |-> <<"inputMint", "outputMint", "amount", "slippageBps">>
                          \o (IF platformFeeBps > 0 THEN <<"platformFeeBps">> ELSE <<>>)],
     options |-> [method |-> None, headers |-> BuildHeaders(apiKey), body |-> None]]

\* The url and options getSwapTransaction hands to fetchWithRetry: a POST whose
\* body is the JSON text of the request, with feeAccount when one is given.
SwapRequest(feeAccountOpt, apiKey) ==
    [caller |-> "getSwapTransaction",
     url |-> [base |-> "JUPITER_SWAP_URL", query |-> <<>>],
     options |-> [method |-> Some("POST"),
                  headers |-> {<<"Content-Type", "application/json">>}
                                \cup BuildHeaders(apiKey),
                  body |-> Some([quoteResponse |-> TRUE, userPublicKey |-> "W",
                                 dynamicComputeUnitLimit |-> TRUE, dynamicSlippage |-> TRUE,
                                 feeAccount |-> feeAccountOpt])]]

FrQuoteRequests == {QuoteRequest(f, k) : f \in {0, 20}, k \in {"", "KEY"}}
FrSwapRequests == {SwapRequest(a, k) : a \in {None, Some("FEE_ATA")}, k \in {"", "KEY"}}

\* fetch that sends the body with the first attempt only.
FetchRequest_BodyOnce(url, options) ==
    [url |-> url,
     method |-> IF IsSet(options.method) THEN Val(options.method) ELSE "GET",
     headers |-> options.headers,
     body |-> IF frAttempt = 0 THEN options.body ELSE None]

\* fetch(url, options): the request that goes out; the method is GET when
\* options names none.
FetchRequest(url, options) ==
    [url |-> url,
     method |-> IF IsSet(options.method) THEN Val(options.method) ELSE "GET",
     headers |-> options.headers,
     body |-> options.body]

\* getSwapTransaction once fetchWithRetry has returned res.
GetSwapTransactionResult(res) ==
    IF ~Ok(res)
    THEN [called |-> TRUE, threw |-> TRUE,
          message |-> IF res.body.kind = "json" /\ res.body.error # ""
                      THEN "Jupiter swap failed: " \o res.body.error
                      ELSE "Jupiter swap failed (" \o ToString(res.status) \o "): "
                             \o res.statusText,
          quote |-> FALSE]
    ELSE IF res.body.kind = "json"
         THEN [called |-> TRUE, threw |-> FALSE, message |-> "", quote |-> res.body.quote]
         ELSE [called |-> TRUE, threw |-> TRUE, message |-> "SyntaxError", quote |-> FALSE]

InitFetch ==
    /\ frPc = "fetch" /\ frAttempt = 0 /\ frCalls = 0 /\ frDelays = <<>>
    /\ frAnswers = <<>> /\ frLast = None /\ frRes = None /\ frOut = NotCalled
    /\ frReq \in {Some(r) : r \in FrQuoteRequests} /\ frSent = <<>>
    /\ IdleSafety /\ IdleValidate /\ IdleSimulate /\ IdleCommand /\ IdleKnown
    /\ IdleReceipts /\ IdleWriters

\* const res = await fetch(url, options), and what follows up to the next await.
FetchAttempt ==
    /\ frPc = "fetch"
    /\ frCalls' = frCalls + 1
    /\ frSent' = Append(frSent, FetchRequest(Val(frReq).url, Val(frReq).options))
    /\ \/ \* fetch rejects: the error leaves fetchWithRetry and getQuote
          /\ frOut' = [called |-> TRUE, threw |-> TRUE, message |-> "fetch failed",
                       quote |-> FALSE]
          /\ frPc' = "done"
          /\ UNCHANGED <<frAttempt, frAnswers, frLast, frRes>>
       \/ \E res \in FrResponses :
             /\ frAnswers' = Append(frAnswers, res)
             /\ IF ~IsRateLimited(res)
                THEN /\ frRes' = Some(res)
                     /\ frPc' = "respond"
                     /\ UNCHANGED <<frAttempt, frLast>>
                ELSE /\ frLast' = Some(res)
                     /\ IF SleepNeeded(frAttempt)
                        THEN frPc' = "sleep" /\ UNCHANGED <<frAttempt, frRes>>
                        ELSE NextIteration(Some(res))
             /\ UNCHANGED frOut
    /\ UNCHANGED <<frReq, frDelays, vtVars, vsVars, sdVars, cmdVars, bkVars, rcVars, wrVars>>

\* await new Promise((resolve) => setTimeout(resolve, delay))
BackoffSleep ==
    /\ frPc = "sleep"
    /\ frDelays' = Append(frDelays, RetryDelay(frAttempt))
    /\ NextIteration(frLast)
    /\ UNCHANGED <<frCalls, frAnswers, frLast, frOut, frReq, frSent,
                   vtVars, vsVars, sdVars, cmdVars, bkVars, rcVars, wrVars>>

\* getQuote after fetchWithRetry returned.
GetQuoteRespond ==
    /\ frPc = "respond" /\ Val(frReq).caller = "getQuote"
    /\ frOut' = GetQuoteResult(Val(frRes))
    /\ frPc' = "done"
    /\ UNCHANGED <<frAttempt, frCalls, frDelays, frAnswers, frLast, frRes, frReq, frSent,
                   vtVars, vsVars, sdVars, cmdVars, bkVars, rcVars, wrVars>>

\* getSwapTransaction after fetchWithRetry returned.
GetSwapTransactionRespond ==
    /\ frPc = "respond" /\ Val(frReq).caller = "getSwapTransaction"
    /\ frOut' = GetSwapTransactionResult(Val(frRes))
    /\ frPc' = "done"
    /\ UNCHANGED <<frAttempt, frCalls, frDelays, frAnswers, frLast, frRes, frReq, frSent,
                   vtVars, vsVars, sdVars, cmdVars, bkVars, rcVars, wrVars>>

NextFetch == FetchAttempt \/ BackoffSleep \/ GetQuoteRespond

SpecFetch == InitFetch /\ [][NextFetch]_vars

\* One getSwapTransaction call over the retrying fetch.
InitSwapBuild ==
    /\ frPc = "fetch" /\ frAttempt = 0 /\ frCalls = 0 /\ frDelays = <<>>
    /\ frAnswers = <<>> /\ frLast = None /\ frRes = None /\ frOut = NotCalled
    /\ frReq \in {Some(r) : r \in FrSwapRequests} /\ frSent = <<>>
    /\ IdleSafety /\ IdleValidate /\ IdleSimulate /\ IdleCommand /\ IdleKnown
    /\ IdleReceipts /\ IdleWriters

NextSwapBuild == FetchAttempt \/ BackoffSleep \/ GetSwapTransactionRespond

SpecSwapBuild == InitSwapBuild /\ [][NextSwapBuild]_vars

\* The event loop runs every continuation whose promise has settled.
SpecFetchLive == SpecFetch /\ WF_vars(NextFetch)

----------------------------------------------------------------------------
\* Inputs of the buildKnownAddresses specification

MaxMints == 2

BkWallets == {Wallet, "V"}

\* No fee account, a fee wallet, and a configured string that is no public key.
BkFees == {None, Some(FeeWallet), Some("bad:fee")}

BkMintLists ==
    {None} \cup {Some(l) : l \in SeqsUpTo({SOL_MINT, USDC_MINT, "bad:mint"}, MaxMints)}

InitKnown ==
    /\ bkWallet \in BkWallets
    /\ bkFee \in BkFees
    /\ bkMints \in BkMintLists
    /\ bkOut = NotCalled
    /\ IdleSafety /\ IdleValidate /\ IdleSimulate /\ IdleCommand /\ IdleFetch
    /\ IdleReceipts /\ IdleWriters

CallBuildKnownAddresses ==
    /\ ~bkOut.called
    /\ bkOut' = [called |-> TRUE, known |-> BuildKnownAddresses(bkWallet, bkFee, bkMints)]
    /\ UNCHANGED <<bkWallet, bkFee, bkMints, vtVars, vsVars, sdVars, cmdVars, frVars, rcVars, wrVars>>

NextKnown == CallBuildKnownAddresses

SpecKnown == InitKnown /\ [][NextKnown]_vars

----------------------------------------------------------------------------
\* Properties of buildKnownAddresses (SpecKnown).

FixedProgramIds ==
    {"11111111111111111111111111111111",
     "TokenkegQfeZyiNwAJbNbGKPFXCWuBvf9Ss623VQ5DA",
     "ATokenGPvbdGVxr1b2hvZbsiqW5xWH25efTNsLJA8knL",
     "JUP6LkbZbjS1jKKwapdHNy74zcZ3tLUZoi5QNyVTaV4"}

\* C13: for every wallet W, fee account and mint list, the set returned by
\* buildKnownAddresses contains W and the four fixed program identifiers;
\* when no fee account and no mints are given it is exactly that
\* five-element set.
C13_KnownAlwaysHoldsWalletAndPrograms ==
    bkOut.called =>
        /\ ({bkWallet} \cup FixedProgramIds) \subseteq bkOut.known
        /\ (~IsSet(bkFee) /\ ~IsSet(bkMints)) =>
              /\ bkOut.known = {bkWallet} \cup FixedProgramIds
              /\ Cardinality(bkOut.known) = 5

\* buildKnownAddresses(W) alone.
C13_Witness ==
    /\ bkOut.called /\ ~IsSet(bkFee) /\ ~IsSet(bkMints)
    /\ Cardinality(bkOut.known) = 5

\* The mints of the list that are public keys.
WellFormedMints(mintsOpt) ==
    IF IsSet(mintsOpt)
    THEN {Val(mintsOpt)[i] : i \in {j \in 1..Len(Val(mintsOpt)) :
                                        Val(mintsOpt)[j] \notin MalformedKeys}}
    ELSE {}

----------------------------------------------------------------------------
\* Properties of one invocation (Spec).

InTrace(event) == \E i \in 1..Len(trace) : trace[i] = event

\* The sendRawTransaction calls that carried the given kind of transaction.
Submitted(what) == {i \in 1..Len(network) : network[i].tx = what}

\* The answers promptConfirmation takes for a yes: y or yes, in any case, with
\* any surrounding blanks.
Affirmative == {"y", "Y", " y ", "yes", "YES"}

\* An earlier stage of the swap failed: the quote breaches a configured
\* guardrail, the swap-build call failed, the simulation reported an error,
\* a destination of the diff is outside the known set, or the user declined.
EarlierStageFailed ==
    \/ IsSet(quoted) /\ \E rule \in Guardrails : Breaches(rule, Val(quoted), config.safety)
    \/ InTrace("swap_build_error")
    \/ InTrace("simulate_error")
    \/ IsSet(simDiff) /\ ~(Range(Val(simDiff).destinations) \subseteq knownSet)
    \/ IsSet(typed) /\ Val(typed) \notin Affirmative

\* C1: in every swap execution where the guardrail check reports a violation,
\* the swap-build call fails, the simulation reports an error, transfer
\* validation finds an unknown destination, or the user declines the prompt,
\* the swap transaction is never signed nor submitted to the network.
C1_NoBroadcastAfterFailure ==
    (cmd = "swap" /\ EarlierStageFailed) =>
        /\ Submitted("swap") = {}
        /\ ~InTrace("sign") /\ ~InTrace("broadcast")

\* A swap that ended because the simulated diff named a destination outside
\* the known set, with a fee-account setup that had passed.
C1_Witness ==
    /\ cmd = "swap" /\ pc = "exited"
    /\ IsSet(simDiff) /\ ~(Range(Val(simDiff).destinations) \subseteq knownSet)
    /\ InTrace("validate_unknown")
    /\ IsSet(feeAccount)
    /\ Submitted("swap") = {}

\* C3: in every swap execution the guardrail check on the quote completes
\* before the swap transaction is requested and before simulation; and,
\* unless --skip-simulation was given, simulation and then known-address
\* validation both complete successfully before the swap transaction is
\* signed and broadcast.
C3_StageOrder ==
    cmd = "swap" =>
        /\ \A i \in 1..Len(trace) :
              trace[i] \in {"swap_build", "swap_build_error", "simulate_ok", "simulate_error"}
                => \E j \in 1..(i - 1) : trace[j] = "guardrail_ok"
        /\ \A i \in 1..Len(trace) :
              trace[i] \in {"simulate_ok", "simulate_error"}
                => \E j \in 1..(i - 1) : trace[j] = "swap_build"
        /\ ~opts.skipSimulation =>
              /\ \A i \in 1..Len(trace) :
                    trace[i] \in {"sign", "sign_error", "broadcast"}
                      => \E j \in 1..(i - 1), k \in 1..(i - 1) :
                            j < k /\ trace[j] = "simulate_ok" /\ trace[k] = "validate_ok"
              /\ Submitted("swap") # {} =>
                    /\ IsSet(simDiff)
                    /\ Range(Val(simDiff).destinations) \subseteq knownSet

\* A swap without --skip-simulation whose transaction was broadcast and confirmed.
C3_Witness ==
    /\ cmd = "swap" /\ ~opts.skipSimulation
    /\ pc = "exited" /\ exitCode = Some(EXIT_SUCCESS)
    /\ InTrace("broadcast") /\ InTrace("confirmed")
    /\ Submitted("swap") # {}

\* C5: every swap attempt that reaches a terminal state after a quote has
\* been obtained appends exactly one receipt to the ledger before the process
\* exits; an attempt that fails before a quote exists appends none.  Stated
\* for the executions in which no storeReceipt call throws.
C5_ExactlyOneReceipt ==
    (cmd = "swap" /\ pc = "exited" /\ storeErrors = 0) =>
        Len(ParsedLines(ledger)) = (IF IsSet(quoted) THEN 1 ELSE 0)

\* C7: in any single swap or send invocation, on every path, at most one
\* transaction is submitted to the network.
C7_AtMostOneSubmission ==
    Len(network) <= 1

\* C7, amended: at most one swap transaction (swap) or one transfer
\* transaction (send) is submitted per invocation; a swap may submit, before
\* it, at most one transaction creating the fee token account, and only when a
\* fee account is configured with fee_bps > 0 and auto_create_fee_ata is on;
\* send submits nothing else.
C7_AtMostOneSwapAndOneFeeAtaSubmission ==
    /\ Cardinality(Submitted(cmd)) <= 1
    /\ Cardinality(Submitted("create_fee_ata")) <= 1
    /\ \A i \in 1..Len(network) : network[i].tx \in {cmd, "create_fee_ata"}
    /\ \A i \in Submitted("create_fee_ata"), j \in Submitted(cmd) : i < j
    /\ Submitted("create_fee_ata") # {} =>
          /\ cmd = "swap"
          /\ config.fee_account # "" /\ config.fee_bps > 0 /\ config.auto_create_fee_ata
    /\ Len(network) <= 2

\* A swap that submitted the fee-account creation and then the swap itself.
C7_Witness ==
    /\ cmd = "swap" /\ pc = "exited"
    /\ Len(network) = 2
    /\ network[1].tx = "create_fee_ata" /\ network[2].tx = "swap"

\* C8: with --simulate-only, on every path of a swap no transaction is
\* submitted to the network.
C8_SimulateOnlySubmitsNothing ==
    (cmd = "swap" /\ opts.simulateOnly) => network = <<>>

----------------------------------------------------------------------------
\* Properties of the token diff (SpecSimulate).

\* The amount a vector holds for a key, 0 when it holds no record of it.
AmountAt(vector, key) ==
    LET hits == {i \in 1..Len(vector) : KeyOf(vector[i]) = key}
    IN  IF hits = {} THEN 0 ELSE vector[CHOOSE i \in hits : TRUE].amount

TokenKeys(sim) ==
    {KeyOf(Val(sim.preTokenBalances)[i]) : i \in 1..Len(Val(sim.preTokenBalances))}
      \cup {KeyOf(Val(sim.postTokenBalances)[i]) : i \in 1..Len(Val(sim.postTokenBalances))}

\* Post amount minus pre amount of a key, a missing side counting as 0.
ExactChange(sim, key) ==
    AmountAt(Val(sim.postTokenBalances), key) - AmountAt(Val(sim.preTokenBalances), key)

\* C11: for any pre- and post-simulation token-balance vectors, tokenChanges
\* holds exactly one entry for every (accountIndex, mint) key whose post
\* amount minus pre amount (a missing side counting as 0) is non-zero, with
\* that difference as its change; it holds no entry with change 0, and no
\* transfer is lost or counted twice.
C11_TokenChangesExact ==
    (/\ sdOut.called /\ ~sdOut.threw
     /\ IsSet(sdSim.preTokenBalances) /\ IsSet(sdSim.postTokenBalances)) =>
        LET changes == Val(sdOut.diff).tokenChanges
            moved == {k \in TokenKeys(sdSim) : ExactChange(sdSim, k) # 0}
        IN  /\ Len(changes) = Cardinality(moved)
            /\ \A i \in 1..Len(changes) : changes[i].change # 0
            /\ \A k \in moved :
                  Cardinality({i \in 1..Len(changes) : changes[i].change = ExactChange(sdSim, k)})
                    = Cardinality({m \in moved : ExactChange(sdSim, m) = ExactChange(sdSim, k)})

\* C12: for every transaction and simulation result, the destinations of the
\* TransferDiff returned by simulateAndDiff never contain the initiating
\* wallet's address.
C12_WalletNotInDestinations ==
    (sdOut.called /\ ~sdOut.threw) => Wallet \notin Range(Val(sdOut.diff).destinations)

----------------------------------------------------------------------------
\* C15: registry incompleteness can only cause a rejection: for known sets K
\* and K' with K a subset of K', the unknown addresses reported for K' are a
\* subset of those reported for K, so a diff accepted with K is accepted with
\* K', and removing addresses from the known set never turns an unsafe
\* verdict into a safe one.
C15_KnownSetMonotone ==
    vtOut.called =>
        /\ \A larger \in SUBSET VtAddresses :
              vtKnown \subseteq larger =>
                  LET r == ValidateTransfers(vtDiff, larger)
                  IN  /\ Range(r.unknownAddresses) \subseteq Range(vtOut.unknownAddresses)
                      /\ vtOut.safe => r.safe
        /\ \A smaller \in SUBSET vtKnown :
              LET r == ValidateTransfers(vtDiff, smaller)
              IN  /\ Range(vtOut.unknownAddresses) \subseteq Range(r.unknownAddresses)
                  /\ ~vtOut.safe => ~r.safe

\* A diff rejected with K that a larger known set accepts.
C15_Witness ==
    /\ vtOut.called /\ ~vtOut.safe
    /\ vtKnown # {}
    /\ \E larger \in SUBSET VtAddresses :
          vtKnown \subseteq larger /\ ValidateTransfers(vtDiff, larger).safe

----------------------------------------------------------------------------
\* Properties of the retrying fetch under getQuote (SpecFetch, SpecFetchLive).

AllRateLimited(answers) == \A i \in 1..Len(answers) : answers[i].status = 429

\* C16: if the transport answers 429 on the first n attempts (n at most
\* maxRetries) and then any non-429 status, the retrying fetch returns that
\* response after exactly n+1 transport invocations; in particular 429, 429,
\* 200 makes getQuote succeed with exactly 3 invocations.
C16_ReturnsFirstNon429 ==
    (frAnswers # <<>> /\ frAnswers[Len(frAnswers)].status # 429) =>
        LET n == Len(frAnswers) - 1
        IN  /\ n <= 3
            /\ AllRateLimited(SubSeq(frAnswers, 1, n))
            /\ frPc \in {"respond", "done"}
            /\ frRes = Some(frAnswers[n + 1])
            /\ frCalls = n + 1
            /\ (/\ frOut.called
                /\ [i \in 1..Len(frAnswers) |-> frAnswers[i].status] = <<429, 429, 200>>
                /\ frAnswers[3].body.kind = "json")
                 => (~frOut.threw /\ frCalls = 3)

\* 429, 429, then a 200 carrying a quote.
C16_Witness ==
    /\ frOut.called /\ ~frOut.threw /\ frOut.quote
    /\ [i \in 1..Len(frAnswers) |-> frAnswers[i].status] = <<429, 429, 200>>
    /\ frCalls = 3

C17_Bounded ==
    /\ frCalls <= 4
    /\ Len(frDelays) <= 3
    /\ \A i \in 1..Len(frDelays) : frDelays[i] = 1000 * (2 ^ (i - 1))
    /\ (Len(frAnswers) = 4 /\ AllRateLimited(frAnswers)) =>
          /\ frPc \in {"respond", "done"}
          /\ frRes = Some(frAnswers[4])
          /\ frPc = "done" => (frOut.called /\ frOut.threw)

\* C17: the 429 retry loop is bounded and terminates: the transport is
\* invoked at most maxRetries+1 times (4 by default), and when every attempt
\* returns 429 the last 429 response is returned as a failure, so getQuote
\* raises an error instead of retrying further.
C17_RetryLoopBoundedAndTerminates ==
    []C17_Bounded /\ <>(frPc = "done")

\* Four 429 answers, three backoff delays, and getQuote threw.
C17_Witness ==
    /\ frPc = "done" /\ frOut.called /\ frOut.threw
    /\ Len(frAnswers) = 4 /\ AllRateLimited(frAnswers)
    /\ frCalls = 4
    /\ frDelays = <<1000, 2000, 4000>>

\* C18: a non-success response with a status other than 429 fails
\* immediately: the transport is invoked exactly once, no backoff delay
\* occurs, and an error is raised whose message is the response body's error
\* field when the body parses and has one, else the status text.
C18_OtherFailureIsImmediate ==
    (/\ frAnswers # <<>>
     /\ frAnswers[1].status # 429
     /\ ~(frAnswers[1].status \in 200..299)) =>
        /\ Len(frAnswers) = 1 /\ frCalls = 1 /\ frDelays = <<>>
        /\ frPc \in {"respond", "done"}
        /\ frPc = "done" =>
              /\ frOut.called /\ frOut.threw
              /\ frOut.message =
                    (IF frAnswers[1].body.kind = "json" /\ frAnswers[1].body.error # ""
                     THEN "Jupiter quote failed: " \o frAnswers[1].body.error
                     ELSE "Jupiter quote failed (" \o ToString(frAnswers[1].status)
                            \o "): " \o frAnswers[1].statusText)

\* A 400 whose body carries an error field.
C18_Witness ==
    /\ frPc = "done" /\ frCalls = 1
    /\ Len(frAnswers) = 1 /\ frAnswers[1].status = 400
    /\ frOut.message = "Jupiter quote failed: Invalid token mint"

----------------------------------------------------------------------------
\* The receipts file specification: storeReceipt and lookupReceipt calls, in
\* any order, on one receipts.jsonl.

MaxStores == 3

RcSignatures == {"", "sigA", "sigB"}

\* The diffs simulateAndDiff hands to the receipt: one with a native change of
\* -2 lamports and one whose native change is NaN.
RcDiffs ==
    {DiffOf(LegacyTx(<<[programId |-> "TOK", keys |-> <<Wallet, "X">>]>>),
            SimValue(None, Some(<<>>), bal, Some(<<>>), Some(<<TokenRecord(2, "X", 1)>>)),
            Wallet) :
        bal \in {[pre |-> Some(<<9>>), post |-> Some(<<7>>)],
                 [pre |-> Some(<<9>>), post |-> Some(<<>>)]}}

\* Receipts as the commands build them: a success or an on-chain failure
\* carries the signature, any other failure and a simulation carry ''.
RcReceipts ==
    {Receipt("success", sig, Some(d), "") : sig \in RcSignatures \ {""}, d \in RcDiffs}
        \cup {Receipt("failed", sig, None, "Safety check failed") : sig \in RcSignatures}
        \cup {Receipt("simulated", "", Some(d), "") : d \in RcDiffs}

\* Receipts of earlier invocations, written without a simulation.
RcOld(txSignature) == Receipt("success", txSignature, None, "")
RcOldFailed(txSignature) == Receipt("failed", txSignature, None, "Transaction failed on-chain")

\* The file before the first call: missing; empty; one line that is no JSON;
\* a torn line alone; the text null and a blank line; a file with a line that
\* is no JSON, two receipts of sigA with an empty line between them, the
\* second one indented, and a torn last line; a number and a receipt of sigB.
RcInitialFiles ==
    {[exists |-> FALSE, content |-> <<>>],
     [exists |-> TRUE, content |-> <<>>],
     [exists |-> TRUE, content |-> <<NotJson, Newline>>],
     [exists |-> TRUE, content |-> <<NotJson>>],
     [exists |-> TRUE, content |-> <<JsonText(JsonNull), Newline, Blank, Newline>>],
     [exists |-> TRUE,
      content |-> <<NotJson, Newline,
                    JsonText(JsonStringify(RcOld("sigA"))), Newline,
                    Newline,
                    Blank, JsonText(JsonStringify(RcOldFailed("sigA"))), Blank, Newline,
                    NotJson>>],
     [exists |-> TRUE,
      content |-> <<JsonText([nan |-> FALSE, value |-> 5]), Newline,
                    JsonText(JsonStringify(RcOld("sigB"))), Newline>>]}

InitReceipts ==
    /\ \E file \in RcInitialFiles :
          /\ rcExists = file.exists
          /\ rcInitial = file.content
    /\ rcFile = rcInitial
    /\ rcCalls = <<>>
    /\ rcFound = NotLookedUp
    /\ IdleSafety /\ IdleValidate /\ IdleSimulate /\ IdleCommand /\ IdleKnown /\ IdleFetch
    /\ IdleWriters

\* await storeReceipt(receipt, config), for a call that returns:
\* appendFileSync creates a missing file.
CallStoreReceipt ==
    /\ Len(rcCalls) < MaxStores
    /\ \E receipt \in RcReceipts :
          /\ rcFile' = StoreReceipt(rcFile, receipt)
          /\ rcCalls' = Append(rcCalls, receipt)
    /\ rcExists' = TRUE
    /\ rcFound' = NotLookedUp
    /\ UNCHANGED <<rcInitial, vtVars, vsVars, sdVars, cmdVars, bkVars, frVars, wrVars>>

\* await lookupReceipt(txSignature, config)
CallLookupReceipt ==
    /\ \E txSignature \in RcSignatures \cup {"sigC"} :
          LET res == LookupReceipt(rcExists, rcFile, txSignature)
          IN  rcFound' = [called |-> TRUE, txSignature |-> txSignature,
                          threw |-> res.threw, found |-> res.found]
    /\ UNCHANGED <<rcExists, rcInitial, rcFile, rcCalls,
                   vtVars, vsVars, sdVars, cmdVars, bkVars, frVars, wrVars>>

NextReceipts == CallStoreReceipt \/ CallLookupReceipt

SpecReceipts == InitReceipts /\ [][NextReceipts]_vars

----------------------------------------------------------------------------
\* Two invocations storing one receipt each into the same receipts file.
\* Each is a process of its own, so the steps of storeReceipt interleave
\* freely: existsSync(dir), mkdirSync(dir), and the open, write and close of
\* appendFileSync.

Writers == {"p1", "p2"}

WrReceipts ==
    [p1 : {RcOld("sigA"), RcOldFailed("sigA")},
     p2 : {RcOld("sigB"), Receipt("failed", "sigB", None, "Transaction failed on-chain")}]

\* The directory and the file before the two calls.
WrInitialFiles ==
    {[dir |-> FALSE, exists |-> FALSE, content |-> <<>>],
     [dir |-> TRUE, exists |-> FALSE, content |-> <<>>],
     [dir |-> TRUE, exists |-> TRUE, content |-> <<>>],
     [dir |-> TRUE, exists |-> TRUE, content |-> ReceiptLine(RcOld("sigC"))]}

InitWriters ==
    /\ \E file \in WrInitialFiles :
          /\ wrDir = file.dir
          /\ rcExists = file.exists
          /\ rcInitial = file.content
    /\ rcFile = rcInitial
    /\ rcCalls = <<>>
    /\ rcFound = NotLookedUp
    /\ wrReceipt \in WrReceipts
    /\ wrPc = [w \in Writers |-> "start"]
    /\ wrOffset = [w \in Writers |-> 0]
    /\ IdleSafety /\ IdleValidate /\ IdleSimulate /\ IdleCommand /\ IdleKnown /\ IdleFetch

\* if (!existsSync(dir))
WriterCheckDir(w) ==
    /\ wrPc[w] = "start"
    /\ wrPc' = [wrPc EXCEPT ![w] = IF wrDir THEN "open" ELSE "mkdir"]
    /\ UNCHANGED <<wrDir, wrReceipt, wrOffset, rcVars,
                   vtVars, vsVars, sdVars, cmdVars, bkVars, frVars>>

\* mkdirSync(dir, { recursive: true }): no error when the directory is there.
WriterMkdir(w) ==
    /\ wrPc[w] = "mkdir"
    /\ wrDir' = TRUE
    /\ wrPc' = [wrPc EXCEPT ![w] = "open"]
    /\ UNCHANGED <<wrReceipt, wrOffset, rcVars,
                   vtVars, vsVars, sdVars, cmdVars, bkVars, frVars>>

\* appendFileSync: open with flag 'a', which creates a missing file.
WriterOpen(w) ==
    /\ wrPc[w] = "open"
    /\ rcExists' = TRUE
    /\ wrOffset' = [wrOffset EXCEPT ![w] = Len(rcFile)]
    /\ wrPc' = [wrPc EXCEPT ![w] = "write"]
    /\ UNCHANGED <<wrDir, wrReceipt, rcInitial, rcFile, rcCalls, rcFound,
                   vtVars, vsVars, sdVars, cmdVars, bkVars, frVars>>

\* appendFileSync: the write of the line.
WriterWrite(w) ==
    /\ wrPc[w] = "write"
    /\ rcFile' = AppendWrite(rcFile, wrOffset[w], ReceiptLine(wrReceipt[w]))
    /\ wrPc' = [wrPc EXCEPT ![w] = "close"]
    /\ UNCHANGED <<wrDir, wrReceipt, wrOffset, rcExists, rcInitial, rcCalls, rcFound,
                   vtVars, vsVars, sdVars, cmdVars, bkVars, frVars>>

\* appendFileSync: close; storeReceipt returns.
WriterClose(w) ==
    /\ wrPc[w] = "close"
    /\ rcCalls' = Append(rcCalls, wrReceipt[w])
    /\ wrPc' = [wrPc EXCEPT ![w] = "done"]
    /\ UNCHANGED <<wrDir, wrReceipt, wrOffset, rcExists, rcInitial, rcFile, rcFound,
                   vtVars, vsVars, sdVars, cmdVars, bkVars, frVars>>

\* A later lookupReceipt, by any process.
WriterLookup ==
    /\ \A w \in Writers : wrPc[w] = "done"
    /\ CallLookupReceipt

CheckDir == \E w \in Writers : WriterCheckDir(w)
Mkdir == \E w \in Writers : WriterMkdir(w)
OpenAppend == \E w \in Writers : WriterOpen(w)
WriteLine == \E w \in Writers : WriterWrite(w)
CloseFile == \E w \in Writers : WriterClose(w)

NextWriters == CheckDir \/ Mkdir \/ OpenAppend \/ WriteLine \/ CloseFile \/ WriterLookup

SpecWriters == InitWriters /\ [][NextWriters]_vars

----------------------------------------------------------------------------
\* Properties of the receipts file (SpecReceipts).

\* The lines storeReceipt has to have written for the calls made, in order.
RECURSIVE LinesOf(_)
LinesOf(receipts) ==
    IF receipts = <<>> THEN <<>>
    ELSE <<JsonText(JsonStringify(Head(receipts))), Newline>> \o LinesOf(Tail(receipts))

\* C19: storeReceipt strictly appends: after any sequence of storeReceipt
\* calls the file is its content before the calls followed by one JSON line
\* plus newline per call, in call order, so that no earlier byte is changed or
\* removed, and every call added exactly one line.
C19_StoreReceiptAppends ==
    /\ rcFile = rcInitial \o LinesOf(rcCalls)
    /\ Len(SplitLines(rcFile)) = Len(SplitLines(rcInitial)) + Len(rcCalls)

C19_Witness ==
    /\ rcInitial # <<>>
    /\ Len(rcCalls) = MaxStores
    /\ rcCalls[1] # rcCalls[2]

\* The line indexes of a content whose line parses to a value of the signature.
LinesCarrying(content, txSignature) ==
    LET lines == SplitLines(content)
    IN  {i \in 1..Len(lines) :
            LET t == Trim(lines[i])
            IN  /\ Len(t) = 1
                /\ "json" \in DOMAIN t[1]
                /\ "txSignature" \in DOMAIN t[1].json
                /\ t[1].json.txSignature = txSignature}

\* The receipt stored by the last call is the only one of its signature, and
\* the file the calls started from ended with a complete line.
LastIsOnlyOfItsSignature ==
    /\ rcCalls # <<>>
    /\ rcInitial = <<>> \/ rcInitial[Len(rcInitial)] = Newline
    /\ LinesCarrying(rcInitial, rcCalls[Len(rcCalls)].txSignature) = {}
    /\ \A i \in 1..(Len(rcCalls) - 1) :
           rcCalls[i].txSignature # rcCalls[Len(rcCalls)].txSignature

\* C20: storeReceipt(r) followed by lookupReceipt(r.signature) returns a value
\* deep-equal to r, however many receipts of other signatures were stored
\* before it.
C20_LookupReturnsWhatWasStored ==
    (/\ rcFound.called
     /\ LastIsOnlyOfItsSignature
     /\ rcFound.txSignature = rcCalls[Len(rcCalls)].txSignature)
        => rcFound.found = Some(rcCalls[Len(rcCalls)])

\* The round trip of the receipts that hold no NaN: these come back as stored.
RoundTripOfJsonNumbers ==
    (/\ rcFound.called
     /\ LastIsOnlyOfItsSignature
     /\ rcFound.txSignature = rcCalls[Len(rcCalls)].txSignature
     /\ JsonStringify(rcCalls[Len(rcCalls)]) = rcCalls[Len(rcCalls)])
        => rcFound.found = Some(rcCalls[Len(rcCalls)])

\* The pieces of a content.
PiecesOf(content) == {content[i] : i \in 1..Len(content)}

\* The value of line i of a content, for a line that parses.
ValueOfLine(content, i) == Trim(SplitLines(content)[i])[1].json

\* C21: lookupReceipt on a missing receipts file, or for a signature that no
\* line of the file carries, returns null, and it never throws, whatever the
\* file holds.
C21_LookupNotFoundNeverThrows ==
    rcFound.called =>
        /\ ~rcFound.threw
        /\ (~rcExists \/ LinesCarrying(rcFile, rcFound.txSignature) = {})
               => rcFound.found = None

\* A lookup of a signature no line carries, in a file that holds text that is
\* no JSON and at least one stored receipt.
C21_Witness ==
    /\ rcFound.called /\ rcExists
    /\ LinesCarrying(rcFile, rcFound.txSignature) = {}
    /\ rcFound.found = None /\ ~rcFound.threw
    /\ rcCalls # <<>>
    /\ NotJson \in PiecesOf(rcFile)

\* A lookup in a missing file.
C21_WitnessMissingFile ==
    rcFound.called /\ ~rcExists /\ rcFound.found = None

\* The content with the lines that do not parse taken out.
RECURSIVE JoinParsed(_)
JoinParsed(lines) ==
    IF lines = <<>> THEN <<>>
    ELSE (IF JsonParses(Trim(Head(lines)))
             /\ ~TxSignatureThrows(Trim(Head(lines))[1].json)
          THEN Head(lines) \o <<Newline>> ELSE <<>>)
             \o JoinParsed(Tail(lines))

\* C22: lookupReceipt returns the earliest line that parses and whose stored
\* signature is the queried one; lines that do not parse, wherever they are,
\* a torn last line included, are skipped: the scan goes on, and the receipt
\* returned is the one returned for the file without those lines.
C22_FirstMatchSkippingUnparseable ==
    (rcFound.called /\ rcExists) =>
        LET hits == LinesCarrying(rcFile, rcFound.txSignature)
        IN  /\ ~rcFound.threw
            /\ rcFound.found =
                   (IF hits = {} THEN None
                    ELSE Some(ValueOfLine(rcFile,
                                          CHOOSE i \in hits : \A j \in hits : i <= j)))
            /\ rcFound.found =
                   LookupReceipt(TRUE, JoinParsed(SplitLines(rcFile)), rcFound.txSignature).found

\* Two different receipts of the signature in the file, a line that is no
\* JSON before the first and a torn line after it.
C22_Witness ==
    /\ rcFound.called /\ rcExists /\ IsSet(rcFound.found)
    /\ LET hits == LinesCarrying(rcFile, rcFound.txSignature)
       IN  /\ \E i, j \in hits : ValueOfLine(rcFile, i) # ValueOfLine(rcFile, j)
           /\ \E k \in 1..Len(SplitLines(rcFile)) :
                  /\ \A i \in hits : k < i
                  /\ LineOutcome(SplitLines(rcFile)[k], rcFound.txSignature) = "throws"
    /\ rcFile[Len(rcFile)] = NotJson

C24_SimulationOptionsForBothEncodings ==
    sdOut.called =>
        /\ IsSet(sdRpc)
        /\ Val(sdRpc).sigVerify = Some(FALSE)
        /\ Val(sdRpc).replaceRecentBlockhash = Some(TRUE)

\* The part of C24 the code keeps: the options of a versioned transaction.
VersionedSimulationOptions ==
    (sdOut.called /\ sdTx.kind = "versioned") =>
        /\ Val(sdRpc).sigVerify = Some(FALSE)
        /\ Val(sdRpc).replaceRecentBlockhash = Some(TRUE)

\* The send amount is within max_trade_sol, which binds SOL sends only.
SendWithinTradeLimit ==
    (opts.token = "SOL" /\ IsSet(config.safety.max_trade_sol))
        => opts.amount <= Val(config.safety.max_trade_sol)

\* C25: in every send invocation the transfer is signed and broadcast only
\* after the max_trade_sol check has passed (it binds native-asset sends) and
\* simulateAndDiff has returned without error, in that order; when either
\* fails nothing is broadcast.
C25_SendBroadcastAfterLimitAndSimulation ==
    cmd = "send" =>
        /\ \A i \in 1..Len(trace) :
              trace[i] \in {"sign", "sign_error", "broadcast"} =>
                 /\ SendWithinTradeLimit
                 /\ IsSet(simDiff)
                 /\ \E j, k \in 1..(i - 1) :
                        j < k /\ trace[j] = "guardrail_ok" /\ trace[k] = "simulate_ok"
        /\ network # <<>> => (SendWithinTradeLimit /\ IsSet(simDiff))
        /\ (~SendWithinTradeLimit \/ InTrace("simulate_error") \/ InTrace("guardrail_violation"))
              => (network = <<>> /\ ~InTrace("sign") /\ ~InTrace("broadcast"))

\* A SOL send over the limit that ended with exit code 2 and nothing sent,
C25_Witness ==
    /\ cmd = "send" /\ pc = "exited"
    /\ opts.token = "SOL" /\ ~SendWithinTradeLimit
    /\ InTrace("guardrail_violation")
    /\ exitCode = Some(EXIT_SAFETY)
    /\ network = <<>>

\* a send whose simulation failed and that sent nothing,
C25_WitnessSimulationFailed ==
    /\ cmd = "send" /\ pc = "exited"
    /\ InTrace("simulate_error")
    /\ exitCode = Some(EXIT_SIMULATION)
    /\ network = <<>>

\* and a SOL send within the limit that was broadcast after its simulation.
C25_WitnessBroadcast ==
    /\ cmd = "send" /\ opts.token = "SOL" /\ IsSet(config.safety.max_trade_sol)
    /\ SendWithinTradeLimit
    /\ Submitted("send") # {}
    /\ IsSet(simDiff)

\* The mint an allowlist entry stands for: the mint of the known token whose
\* symbol the entry is, in any case of letters, else the entry itself.
EntryMint(entry) ==
    CASE entry \in {"SOL", "sol"} -> SOL_MINT
      [] entry \in {"USDC", "usdc"} -> USDC_MINT
      [] entry \in {"USDT", "Usdt"} -> USDT_MINT
      [] OTHER -> entry

\* C26: with a non-empty allowlist the quote passes the allowlist guardrail
\* if and only if quote.outputMint is the mint some entry, a symbol or a
\* literal address, resolves to; an empty or absent allowlist gives no
\* violation.
C26_AllowlistPassesIffOutputListed ==
    vsOut.called =>
        LET listed == IF IsSet(vsConfig.allowlist) THEN Val(vsConfig.allowlist) ELSE <<>>
            passes == MessagesFor("allowlist", vsOut.violations) = 0
        IN  /\ listed = <<>> => passes
            /\ listed # <<>> =>
                  (passes <=> \E i \in 1..Len(listed) : EntryMint(listed[i]) = vsQuote.outputMint)

\* An output mint listed by its symbol in lower case passes,
C26_Witness ==
    /\ vsOut.called
    /\ vsConfig.allowlist = Some(<<"usdc">>)
    /\ vsQuote.outputMint = USDC_MINT
    /\ MessagesFor("allowlist", vsOut.violations) = 0

\* an output mint listed as a literal address next to a symbol passes,
C26_WitnessLiteral ==
    /\ vsOut.called
    /\ vsConfig.allowlist = Some(<<"sol", BONK_MINT>>)
    /\ vsQuote.outputMint = BONK_MINT
    /\ MessagesFor("allowlist", vsOut.violations) = 0

\* and an output mint that no entry resolves to is a violation.
C26_WitnessViolation ==
    /\ vsOut.called
    /\ vsConfig.allowlist = Some(<<"SOL", "Usdt">>)
    /\ vsQuote.outputMint = USDC_MINT
    /\ MessagesFor("allowlist", vsOut.violations) = 1

\* The stage that ended a swap, read from the last event of its trace.
LastEvent == IF trace = <<>> THEN "" ELSE trace[Len(trace)]

\* The text of the error step 0 printed.
Step0Message ==
    IF "error" \in DOMAIN Val(printed) THEN Val(printed).error ELSE Val(printed).text

\* The handler ended in step 0 because the configuration could not be
\* resolved, no wallet is configured, or the wallet could not be loaded.
EndedOnConfigOrWalletError ==
    /\ trace = <<>> /\ ~IsSet(quoted)
    /\ IsSet(printed)
    /\ Step0Message \in {"config_error", "no_wallet", "wallet_error"}

\* The exit code the claim gives for the stage that ended the swap.
ClaimedExitCode ==
    CASE LastEvent \in {"confirmed", "simulate_only"} -> Some(0)
      [] LastEvent \in {"guardrail_violation", "validate_unknown"} -> Some(2)
      [] LastEvent = "simulate_error" -> Some(3)
      [] LastEvent \in {"broadcast", "onchain_error"} -> Some(4)
      [] EndedOnConfigOrWalletError -> Some(5)
      [] OTHER -> None

\* C27: the exit code identifies the stage that ended the swap: 0 for
\* success or a completed --simulate-only run, 2 for a guardrail violation or
\* an unknown transfer destination, 3 for a simulation failure, 4 for a
\* broadcast failure or an on-chain failure, 5 for a configuration or wallet
\* error.
C27_ExitCodeIdentifiesStage ==
    (cmd = "swap" /\ pc = "exited" /\ IsSet(ClaimedExitCode)) =>
        exitCode = ClaimedExitCode

\* The same for the runs in which every storeReceipt call returned.
ExitCodeIdentifiesStageWhenStored ==
    (cmd = "swap" /\ pc = "exited" /\ storeErrors = 0 /\ IsSet(ClaimedExitCode)) =>
        exitCode = ClaimedExitCode

\* A swap that ended in step 0 on a configuration or wallet error, exit code 5.
ConfigErrorExitsFive ==
    cmd = "swap" /\ pc = "exited" /\ EndedOnConfigOrWalletError /\ exitCode = Some(EXIT_CONFIG)

\* A swap that was confirmed on chain and whose process exits with the send
\* failure code, because storing the success receipt threw inside the try
\* block whose catch reports a send failure.
ConfirmedSwapExitsSendFailure ==
    /\ cmd = "swap" /\ pc = "exited"
    /\ LastEvent = "confirmed"
    /\ exitCode = Some(EXIT_SEND)

\* A swap that ended at the guardrail step.
GuardrailTriggered ==
    cmd = "swap" /\ pc = "exited" /\ LastEvent = "guardrail_violation"

\* The console output is the JSON object carrying the violations
\* validateSafety returned for the quote.
JsonResponseIncludesViolations ==
    /\ IsSet(printed)
    /\ "violations" \in DOMAIN Val(printed)
    /\ Val(printed).violations = ValidateSafety(Val(quoted), config.safety).violations
    /\ Len(Val(printed).violations) >= 1

FailedFeeChecks == {i \in 1..Len(trace) : trace[i] = "fee_ata_check_failed"}

\* C29: nothing but the bounded 429 backoff is retried or swallowed: during a
\* swap, a failure of an external call (the fee-account existence check
\* included) ends the attempt with an error; the attempt never continues
\* past it.
C29_FailedFeeCheckEndsAttempt ==
    cmd = "swap" =>
        \A i \in FailedFeeChecks :
            /\ i = Len(trace)
            /\ pc = "exited"
            /\ IsSet(exitCode) /\ Val(exitCode) # 0

\* A swap confirmed on chain without the configured fee account, after the
\* existence check failed on an RPC error with auto_create_fee_ata off.
FeeDroppedAfterFailedCheck ==
    /\ cmd = "swap" /\ pc = "exited" /\ exitCode = Some(0)
    /\ FailedFeeChecks # {}
    /\ ~config.auto_create_fee_ata
    /\ config.fee_bps > 0
    /\ feeAccount = None
    /\ LastEvent = "confirmed"

\* The receipts in the ledger file, as lookupReceipt would parse them.
StoredReceipts == ParsedLines(ledger)

\* sendRawTransaction returned a signature for the command's transaction.
BroadcastAccepted == \E i \in Submitted(cmd) : network[i].accepted

\* C30: a stored receipt's status matches what happened: 'success' only after
\* the broadcast returned a signature and confirmation reported no error, with
\* that non-empty signature; 'simulated' only in a --simulate-only run, with an
\* empty signature; a receipt for a failure before broadcast is 'failed' with
\* an empty signature.
C30_ReceiptStatusMatchesOutcome ==
    cmd \in {"swap", "send"} =>
        \A i \in 1..Len(StoredReceipts) :
            LET r == StoredReceipts[i]
            IN  /\ r.status \in {"success", "failed", "simulated"}
                /\ r.status = "success" =>
                      /\ BroadcastAccepted
                      /\ InTrace("confirmed") /\ ~InTrace("onchain_error")
                      /\ r.txSignature # "" /\ r.txSignature = sentSig
                /\ r.status = "simulated" =>
                      /\ opts.simulateOnly /\ InTrace("simulate_only")
                      /\ r.txSignature = ""
                /\ (~InTrace("broadcast") /\ r.status # "simulated") =>
                      /\ r.status = "failed" /\ r.txSignature = ""

\* A confirmed swap whose ledger holds the success receipt with the signature.
C30_Witness ==
    /\ cmd = "swap" /\ pc = "exited" /\ InTrace("confirmed")
    /\ Len(StoredReceipts) = 1
    /\ StoredReceipts[1].status = "success"
    /\ StoredReceipts[1].txSignature = "SIG"

\* A --simulate-only run whose ledger holds the simulated receipt.
C30_WitnessSimulated ==
    /\ cmd = "swap" /\ pc = "exited" /\ opts.simulateOnly
    /\ Len(StoredReceipts) = 1
    /\ StoredReceipts[1].status = "simulated"
    /\ StoredReceipts[1].txSignature = ""

\* A swap stopped by an unknown destination before broadcast, receipt stored.
C30_WitnessFailedBeforeBroadcast ==
    /\ cmd = "swap" /\ pc = "exited" /\ LastEvent = "validate_unknown"
    /\ Len(StoredReceipts) = 1
    /\ StoredReceipts[1].status = "failed"
    /\ StoredReceipts[1].txSignature = ""

\* C31: whenever the network accepted the broadcast and returned a
\* signature, the receipt stored for the attempt carries that signature; a
\* receipt with an empty signature is stored only if no broadcast was
\* accepted.
C31_ReceiptCarriesAcceptedSignature ==
    cmd \in {"swap", "send"} =>
        \A i \in 1..Len(StoredReceipts) :
            /\ BroadcastAccepted => StoredReceipts[i].txSignature = sentSig
            /\ StoredReceipts[i].txSignature = "" => ~BroadcastAccepted

\* confirmTransaction threw after sendRawTransaction had returned "SIG": the
\* only receipt of the attempt has '' as its signature.
AcceptedBroadcastStoredWithoutSignature ==
    /\ cmd = "swap" /\ pc = "exited" /\ storeErrors = 0
    /\ LastEvent = "confirm_error"
    /\ BroadcastAccepted /\ sentSig = "SIG"
    /\ Len(StoredReceipts) = 1
    /\ StoredReceipts[1].txSignature = ""

\* validateTransfers has been called in this swap.
ValidateTransfersCalled ==
    cmd = "swap" /\ (InTrace("validate_ok") \/ InTrace("validate_unknown"))

\* The venue identifiers of the quote's route plan.
RouteVenues ==
    {Val(quoted).routePlan[i].swapInfo.ammKey : i \in 1..Len(Val(quoted).routePlan)}

\* C32: when validateTransfers is called in a swap, the known-address set
\* holds the venue identifier of every step of the quote's route plan, and
\* everything buildKnownAddresses produced for the wallet, the fee account and
\* the two token mints.
C32_KnownSetHoldsVenuesAtValidation ==
    ValidateTransfersCalled =>
        /\ RouteVenues \subseteq knownSet
        /\ BuildKnownAddresses(Wallet,
                               IF config.fee_account # "" THEN Some(config.fee_account)
                                                          ELSE None,
                               Some(<<SOL_MINT, USDC_MINT>>)) \subseteq knownSet

\* A swap over a two-venue route that reached validateTransfers with a fee
\* wallet configured.
C32_Witness ==
    /\ ValidateTransfersCalled
    /\ Len(Val(quoted).routePlan) = 2
    /\ config.fee_account = FeeWallet
    /\ {AmmKey, "AMM2", Wallet, FeeWallet} \subseteq knownSet

\* C33: whenever a swap passed a fee account to the swap-build request, that
\* address is in the known-address set its simulated transfers are validated
\* against, so validateTransfers never reports it as unknown.
C33_FeeAccountIsKnown ==
    (ValidateTransfersCalled /\ IsSet(feeAccount)) =>
        /\ Val(feeAccount) \in knownSet
        /\ \A i \in 1..Len(ValidateTransfers(Val(simDiff), knownSet).unknownAddresses) :
              ValidateTransfers(Val(simDiff), knownSet).unknownAddresses[i] # Val(feeAccount)

\* A swap whose simulated transfers reach the fee token account that was
\* passed to the swap-build request, and whose validation passed.
C33_Witness ==
    /\ cmd = "swap" /\ InTrace("validate_ok")
    /\ feeAccount = Some(AssociatedTokenAddress(USDC_MINT, FeeWallet))
    /\ IsSet(simDiff)
    /\ \E i \in 1..Len(Val(simDiff).destinations) :
          Val(simDiff).destinations[i] = Val(feeAccount)

\* C34: retrying does not change the request: every attempt of one retried
\* call goes out with the url, method, headers and body of the first attempt
\* (those the caller built), and a success obtained after retries is returned
\* to the caller exactly as a first-attempt success would be.
C34_RetriesKeepRequest ==
    /\ \A i \in 1..Len(frSent) :
          /\ frSent[i] = frSent[1]
          /\ frSent[i].url = Val(frReq).url
          /\ frSent[i].method = "POST"
          /\ frSent[i].headers = Val(frReq).options.headers
          /\ frSent[i].body = Val(frReq).options.body
    /\ Len(frSent) = frCalls
    /\ (frPc = "done" /\ frAnswers # <<>> /\ Ok(frAnswers[Len(frAnswers)])) =>
          LET last == frAnswers[Len(frAnswers)]
          IN  /\ frRes = Some(last)
              /\ last.body.kind = "json" =>
                    /\ ~frOut.threw /\ frOut.message = ""
                    /\ frOut.quote = last.body.quote
              /\ last.body.kind # "json" => frOut.threw

\* A swap-build request with a fee account and an API key, answered 429, 429
\* and then 200: three identical requests went out and the call succeeded.
C34_Witness ==
    /\ frPc = "done" /\ frOut.called /\ ~frOut.threw
    /\ IsSet(frReq)
    /\ Val(frReq).caller = "getSwapTransaction"
    /\ Len(frSent) = 3
    /\ frSent[3].body = Some([quoteResponse |-> TRUE, userPublicKey |-> "W",
                              dynamicComputeUnitLimit |-> TRUE, dynamicSlippage |-> TRUE,
                              feeAccount |-> Some("FEE_ATA")])
    /\ <<"x-api-key", "KEY">> \in frSent[3].headers
    /\ [i \in 1..Len(frAnswers) |-> frAnswers[i].status] = <<429, 429, 200>>

\* C35: backoff doubles starting at initialDelay: the waits before the first,
\* second and third retry are 1000, 2000 and 4000 ms, every wait is followed by
\* a retry, and no wait happens after the final attempt.
C35_BackoffDoubles ==
    /\ Len(frDelays) <= 3
    /\ frDelays = SubSeq(<<1000, 2000, 4000>>, 1, Len(frDelays))
    /\ frPc = "fetch" => Len(frDelays) = frCalls
    /\ frPc = "sleep" => Len(frDelays) = frCalls - 1
    /\ frPc \in {"respond", "done"} => Len(frDelays) = frCalls - 1
    /\ frCalls = MAX_RETRIES + 1 => (frPc # "sleep" /\ Len(frDelays) = 3)

\* Three 429 answers, waits of 1000, 2000 and 4000 ms, and a quote on the
\* fourth attempt with no wait after it.
C35_Witness ==
    /\ frPc = "done" /\ frOut.called /\ ~frOut.threw
    /\ [i \in 1..Len(frAnswers) |-> frAnswers[i].status] = <<429, 429, 429, 200>>
    /\ frDelays = <<1000, 2000, 4000>>
    /\ frCalls = 4

\* Both native balance vectors of the simulation value are present and
\* non-empty.
BothBalanceVectorsNonEmpty ==
    /\ IsSet(sdSim.preBalances) /\ IsSet(sdSim.postBalances)
    /\ Len(Val(sdSim.preBalances)) > 0 /\ Len(Val(sdSim.postBalances)) > 0

\* C36: solChange equals postBalances[0] - preBalances[0] when both balance
\* vectors are present and non-empty, and is 0 in every other case; it is
\* always a defined integer.
C36_SolChangeDefined ==
    (sdOut.called /\ ~sdOut.threw) =>
        LET solChange == Val(sdOut.diff).solChange
        IN  /\ ~solChange.nan
            /\ solChange.value =
                  (IF BothBalanceVectorsNonEmpty
                   THEN Val(sdSim.postBalances)[1] - Val(sdSim.preBalances)[1]
                   ELSE 0)

\* The same for the simulation values whose postBalances is not an empty
\* vector next to a non-empty preBalances.
SolChangeDefinedUnlessPostEmpty ==
    (/\ sdOut.called /\ ~sdOut.threw
     /\ ~(/\ IsSet(sdSim.preBalances) /\ IsSet(sdSim.postBalances)
          /\ Len(Val(sdSim.preBalances)) > 0 /\ Len(Val(sdSim.postBalances)) = 0)) =>
        LET solChange == Val(sdOut.diff).solChange
        IN  /\ ~solChange.nan
            /\ solChange.value =
                  (IF BothBalanceVectorsNonEmpty
                   THEN Val(sdSim.postBalances)[1] - Val(sdSim.preBalances)[1]
                   ELSE 0)

\* simulateAndDiff returned a diff whose solChange is NaN.
SolChangeIsNaN ==
    /\ sdOut.called /\ ~sdOut.threw
    /\ Val(sdOut.diff).solChange.nan
    /\ sdSim.preBalances = Some(<<9>>) /\ sdSim.postBalances = Some(<<>>)

\* The receipts file started with a partial last line: text without the
\* newline that ends a record.
TornTail == rcInitial # <<>> /\ rcInitial[Len(rcInitial)] # Newline

\* The storeReceipt calls made since, by position, that stored the signature
\* looked up.
StoredSince == {i \in 1..Len(rcCalls) : rcCalls[i].txSignature = rcFound.txSignature}

\* C37: a receipt stored after an interrupted write that left a partial last
\* line without a newline is still returned by lookupReceipt for its
\* signature: the torn write costs the torn record only, never a later one.
C37_StoredAfterTornTailIsFound ==
    (rcFound.called /\ TornTail /\ StoredSince # {}) =>
        /\ ~rcFound.threw
        /\ IsSet(rcFound.found)

\* What does hold: a receipt stored second or later after the torn write is
\* found.
LaterStoresSurviveTornTail ==
    (rcFound.called /\ TornTail /\ \E i \in StoredSince : i >= 2) =>
        /\ ~rcFound.threw
        /\ IsSet(rcFound.found)

\* The receipt stored right after the torn write shares the torn line and is
\* not found.
ReceiptAfterTornTailLost ==
    /\ rcFound.called /\ rcInitial = <<NotJson>>
    /\ Len(rcCalls) = 1
    /\ rcCalls[1].txSignature = rcFound.txSignature
    /\ rcFile = <<NotJson>> \o ReceiptLine(rcCalls[1])
    /\ rcFound.found = None

====
